---- MODULE Spec2Model ----
(***************************************************************************)
(* acorde: CRDT replica (LWW-Element-Set of entries, OR-Set of tags per    *)
(* entry, Lamport clock) and the engine facade that drives it.             *)
(*                                                                         *)
(* Go maps are functions whose DOMAIN is the key set.  uuid.New() is a     *)
(* generator of values never returned before: entry ids come from nextID,  *)
(* add tokens from nextToken.  uint64 timestamps are naturals; the clock   *)
(* is capped at MaxClock, far below the point where 64 bits would wrap.    *)
(***************************************************************************)
EXTENDS Integers, Sequences, FiniteSets, TLC

----------------------------------------------------------------------------
(* Bounds *)

MaxClock == 4

MaxIDs == 1

MaxTokens == 3

----------------------------------------------------------------------------
(* Input domains *)

Nodes == {"A", "B"}

Contents == {"c1", "c2"}

Note == "note"

TagLists == {<<>>, <<"initial">>, <<"initial", "A">>, <<"initial", "B">>}

SinceValues == {0, 2}

\* A *[]byte or *[]string argument: nil, or a pointer to a value.
Ptrs(S) == {[has |-> FALSE, val |-> CHOOSE x \in S : TRUE]} \cup {[has |-> TRUE, val |-> x] : x \in S}

----------------------------------------------------------------------------
(* Generic helpers for Go maps and slices *)

MapPut(f, k, v) == [x \in (DOMAIN f) \cup {k} |-> IF x = k THEN v ELSE f[x]]

EmptyMap == [x \in {} |-> 0]

Range(seq) == {seq[i] : i \in DOMAIN seq}

SetMax(S) == IF S = {} THEN 0 ELSE CHOOSE x \in S : \A y \in S : y <= x

\* The positions of a slice that hold the first occurrence of a value in keep.
FirstIn(seq, keep) ==
    {i \in DOMAIN seq : seq[i] \in keep /\ \A j \in 1..(i - 1) : seq[j] # seq[i]}

----------------------------------------------------------------------------
(* core.Clock *)

Tick(time) == time + 1

\* Mutant: the receive rule without the final increment.
ClockUpdateNoIncrement(time, remoteTime) ==
    IF remoteTime > time THEN remoteTime ELSE time

ClockUpdate(time, remoteTime) ==
    (IF remoteTime > time THEN remoteTime ELSE time) + 1

----------------------------------------------------------------------------
(* uuid *)

\* uuid.New(): the n-th random uuid.
UUIDNew(n) == [v |-> 4, n |-> n, name |-> ""]

\* uuid.UUID.String(): canonical text of an entry id; ids are minted in
\* increasing order so the text order is the numeric order.
IDString(id) == id

----------------------------------------------------------------------------
(* crdt.ORSet *)

NewORSet == [adds |-> {}, removes |-> {}]

TagToken(tag, token) == [Tag |-> tag, Token |-> token]

AddWithToken(s, tag, token) ==
    [s EXCEPT !.adds = @ \cup {TagToken(tag, token)}]

\* Mutant: remove cancels the tag under every token, observed or not.
ORSetRemoveAnyToken(s, tag) ==
    [s EXCEPT !.removes = @ \cup {[Tag |-> tag, Token |-> UUIDNew(k)] : k \in 1..MaxTokens}]

ORSetRemove(s, tag) ==
    [s EXCEPT !.removes = @ \cup {tt \in s.adds : tt.Tag = tag}]

ORSetContains(s, tag) ==
    \E tt \in s.adds : tt.Tag = tag /\ tt \notin s.removes

ORSetElements(s) == {tt.Tag : tt \in (s.adds \ s.removes)}

\* Mutant: the merge takes the other side's set instead of the union.
ORSetMergeOverwrite(s, other) == other

ORSetMerge(s, other) ==
    [adds |-> s.adds \cup other.adds, removes |-> s.removes \cup other.removes]

RemoveToken(s, token) ==
    [s EXCEPT !.removes = @ \cup {tt \in s.adds : tt.Token = token}]

\* ORSet.Add for each tag of a slice, in slice order; the i-th add takes the
\* (tok0 + i - 1)-th uuid.
RECURSIVE AddAll(_, _, _)
AddAll(s, tags, tok0) ==
    IF tags = <<>> THEN s
    ELSE AddAll(AddWithToken(s, Head(tags), UUIDNew(tok0)), Tail(tags), tok0 + 1)

----------------------------------------------------------------------------
(* crdt.LWWSet *)

Element(entry) ==
    [Entry |-> entry, Timestamp |-> entry.UpdatedAt, Deleted |-> entry.Deleted]

LWWAdd(elements, entry) ==
    IF \/ entry.ID \notin DOMAIN elements
       \/ entry.UpdatedAt > elements[entry.ID].Timestamp
       \/ /\ entry.UpdatedAt = elements[entry.ID].Timestamp
          /\ IDString(entry.ID) > IDString(elements[entry.ID].Entry.ID)
    THEN MapPut(elements, entry.ID, Element(entry))
    ELSE elements

LWWRemove(elements, id, timestamp) ==
    IF id \notin DOMAIN elements
    THEN MapPut(elements, id,
                [Entry |-> [ID |-> id, Type |-> "", Content |-> "", Tags |-> {},
                            CreatedAt |-> 0, UpdatedAt |-> timestamp, Deleted |-> TRUE],
                 Timestamp |-> timestamp, Deleted |-> TRUE])
    ELSE IF \/ timestamp > elements[id].Timestamp
            \/ (timestamp = elements[id].Timestamp /\ ~elements[id].Deleted)
         THEN MapPut(elements, id,
                     [Entry |-> [elements[id].Entry EXCEPT !.Deleted = TRUE,
                                                            !.UpdatedAt = timestamp],
                      Timestamp |-> timestamp, Deleted |-> TRUE])
         ELSE elements

\* Mutant: at equal timestamps the incoming element always wins.
MergeElementTieToOther(existing, otherElem) ==
    IF otherElem.Timestamp >= existing.Timestamp THEN otherElem ELSE existing

\* Mutant: the comparison is inverted, the older element wins.
MergeElementOlderWins(existing, otherElem) ==
    IF otherElem.Timestamp < existing.Timestamp THEN otherElem ELSE existing

\* The winner of LWWSet.Merge's loop body for one id held by both sides.
MergeElement(existing, otherElem) ==
    IF otherElem.Timestamp > existing.Timestamp THEN otherElem
    ELSE IF otherElem.Timestamp = existing.Timestamp
         THEN IF otherElem.Deleted /\ ~existing.Deleted THEN otherElem
              ELSE IF /\ ~otherElem.Deleted /\ ~existing.Deleted
                      /\ IDString(otherElem.Entry.ID) > IDString(existing.Entry.ID)
                   THEN otherElem
                   ELSE existing
         ELSE existing

LWWMerge(elements, other) ==
    [id \in (DOMAIN elements) \cup (DOMAIN other) |->
        IF id \notin DOMAIN other THEN elements[id]
        ELSE IF id \notin DOMAIN elements THEN other[id]
        ELSE MergeElement(elements[id], other[id])]

----------------------------------------------------------------------------
(* crdt.Replica: a record [entries, tags, clock] *)

NewReplica(clock) == [entries |-> EmptyMap, tags |-> EmptyMap, clock |-> clock]

getOrCreateTagSet(r, id) ==
    IF id \in DOMAIN r.tags THEN r.tags[id] ELSE NewORSet

MaxTimestamp(r) == SetMax({r.entries[id].Timestamp : id \in DOMAIN r.entries})

\* Replica.GetEntry: the error, and for a live entry its content and tag set.
GetEntry(r, id) ==
    IF id \notin DOMAIN r.entries THEN [err |-> "not found", Content |-> "", Tags |-> {}]
    ELSE IF r.entries[id].Deleted THEN [err |-> "deleted", Content |-> "", Tags |-> {}]
    ELSE [err |-> "", Content |-> r.entries[id].Entry.Content,
          Tags |-> IF id \in DOMAIN r.tags THEN ORSetElements(r.tags[id]) ELSE {}]

AddEntryWithID(r, id, entryType, content, tags, tok0) ==
    LET timestamp == Tick(r.clock)
        entry == [ID |-> id, Type |-> entryType, Content |-> content, Tags |-> {},
                  CreatedAt |-> timestamp, UpdatedAt |-> timestamp, Deleted |-> FALSE]
    IN [entries |-> LWWAdd(r.entries, entry),
        tags    |-> IF Len(tags) > 0
                    THEN MapPut(r.tags, id, AddAll(NewORSet, tags, tok0))
                    ELSE r.tags,
        clock   |-> timestamp]

\* The tags UpdateEntry adds, in the order of the caller's list.
NewTagSeq(cur, updateTags) ==
    LET idx == FirstIn(updateTags, Range(updateTags) \ cur)
        RECURSIVE Build(_)
        Build(n) == IF n = 0 THEN <<>>
                    ELSE IF n \in idx THEN Append(Build(n - 1), updateTags[n])
                    ELSE Build(n - 1)
    IN Build(Len(updateTags))

RECURSIVE RemoveAll(_, _)
RemoveAll(s, tagset) ==
    IF tagset = {} THEN s
    ELSE LET t == CHOOSE x \in tagset : TRUE
         IN RemoveAll(ORSetRemove(s, t), tagset \ {t})

\* Mutant: the tombstone test of UpdateEntry is left out.
UpdateErrIgnoresTombstone(r, id) ==
    IF id \notin DOMAIN r.entries THEN "not found" ELSE ""

\* Replica.UpdateEntry; content and updateTags are pointers, nil when the
\* has* flag is FALSE.  Returns the replica unchanged on either error.
UpdateErr(r, id) ==
    IF id \notin DOMAIN r.entries THEN "not found"
    ELSE IF r.entries[id].Entry.Deleted THEN "deleted"
    ELSE ""

\* Mutant: the tag update of the earlier Replica: every current tag is
\* removed and every tag of the list is added under a new token.
UpdateEntryReplaceAll(r, id, hasContent, content, hasTags, updateTags, tok0) ==
    IF UpdateErr(r, id) # "" THEN r
    ELSE LET timestamp == Tick(r.clock)
             existing == r.entries[id].Entry
             updated == [existing EXCEPT
                            !.Content = IF hasContent THEN content ELSE @,
                            !.UpdatedAt = timestamp]
             tagSet == getOrCreateTagSet(r, id)
             removed == RemoveAll(tagSet, ORSetElements(tagSet))
         IN [entries |-> LWWAdd(r.entries, updated),
             tags    |-> IF hasTags
                         THEN MapPut(r.tags, id, AddAll(removed, updateTags, tok0))
                         ELSE r.tags,
             clock   |-> timestamp]

UpdateEntry(r, id, hasContent, content, hasTags, updateTags, tok0) ==
    IF UpdateErr(r, id) # "" THEN r
    ELSE LET timestamp == Tick(r.clock)
             existing == r.entries[id].Entry
             updated == [existing EXCEPT
                            !.Content = IF hasContent THEN content ELSE @,
                            !.UpdatedAt = timestamp]
             tagSet == getOrCreateTagSet(r, id)
             currentTags == ORSetElements(tagSet)
             newTags == Range(updateTags)
             removed == RemoveAll(tagSet, currentTags \ newTags)
         IN [entries |-> LWWAdd(r.entries, updated),
             tags    |-> IF hasTags
                         THEN MapPut(r.tags, id,
                                     AddAll(removed, NewTagSeq(currentTags, updateTags), tok0))
                         ELSE r.tags,
             clock   |-> timestamp]

\* The error Replica.DeleteEntry returns: ErrEntryNotFound for an id the
\* LWW set holds no element for, nil otherwise (a tombstone included).
DeleteErr(r, id) == IF id \notin DOMAIN r.entries THEN "not found" ELSE ""

DeleteEntry(r, id) ==
    IF id \notin DOMAIN r.entries THEN r
    ELSE LET timestamp == Tick(r.clock)
         IN [r EXCEPT !.entries = LWWRemove(r.entries, id, timestamp),
                      !.clock = timestamp]

\* Mutant: the merge leaves the clock alone.
MergeClockUnchanged(r, other) ==
    [entries |-> LWWMerge(r.entries, other.entries),
     tags    |-> [id \in (DOMAIN r.tags) \cup (DOMAIN other.tags) |->
                    IF id \notin DOMAIN other.tags THEN r.tags[id]
                    ELSE IF id \in DOMAIN r.tags
                         THEN ORSetMerge(r.tags[id], other.tags[id])
                         ELSE other.tags[id]],
     clock   |-> r.clock]

Merge(r, other) ==
    [entries |-> LWWMerge(r.entries, other.entries),
     tags    |-> [id \in (DOMAIN r.tags) \cup (DOMAIN other.tags) |->
                    IF id \notin DOMAIN other.tags THEN r.tags[id]
                    ELSE IF id \in DOMAIN r.tags
                         THEN ORSetMerge(r.tags[id], other.tags[id])
                         ELSE other.tags[id]],
     clock   |-> ClockUpdate(r.clock, MaxTimestamp(other))]

\* Replica.State / Replica.exportTags: slices are in map order, so they are sets.
State(r) ==
    [Entries   |-> {r.entries[id] : id \in DOMAIN r.entries},
     Tags      |-> [id \in DOMAIN r.tags |->
                      [Adds |-> r.tags[id].adds, Removes |-> r.tags[id].removes]],
     ClockTime |-> r.clock]

\* The loop over state.Entries in Replica.LoadState.
RECURSIVE LoadEntries(_, _)
LoadEntries(elements, elems) ==
    IF elems = {} THEN elements
    ELSE LET elem == CHOOSE e \in elems : TRUE
             added == LWWAdd(elements, elem.Entry)
         IN LoadEntries(IF elem.Deleted
                        THEN LWWRemove(added, elem.Entry.ID, elem.Timestamp)
                        ELSE added,
                        elems \ {elem})

LoadState(r, state) ==
    [entries |-> LoadEntries(r.entries, state.Entries),
     tags    |-> [id \in (DOMAIN r.tags) \cup (DOMAIN state.Tags) |->
                    IF id \in DOMAIN state.Tags
                    THEN [adds    |-> state.Tags[id].Adds \cup state.Tags[id].Removes,
                          removes |-> state.Tags[id].Removes]
                    ELSE r.tags[id]],
     clock   |-> r.clock]

\* Replica.EntriesSince leaving out the elements written at since + 1.
EntriesSinceSkipsNext(r, since) ==
    {r.entries[id] : id \in {i \in DOMAIN r.entries : r.entries[i].Timestamp > since + 1}}

EntriesSince(r, since) ==
    {r.entries[id] : id \in {i \in DOMAIN r.entries : r.entries[i].Timestamp > since}}

DeltaState(r, since) ==
    LET entries == EntriesSince(r, since)
        ids == {e.Entry.ID : e \in entries} \cap DOMAIN r.tags
    IN [Entries   |-> entries,
        Tags      |-> [id \in ids |->
                         [Adds |-> r.tags[id].adds, Removes |-> r.tags[id].removes]],
        ClockTime |-> r.clock,
        Since     |-> since]

RECURSIVE AddEntries(_, _)
AddEntries(elements, elems) ==
    IF elems = {} THEN elements
    ELSE LET elem == CHOOSE e \in elems : TRUE
         IN AddEntries(LWWAdd(elements, elem.Entry), elems \ {elem})

RECURSIVE RemoveTokens(_, _)
RemoveTokens(s, tts) ==
    IF tts = {} THEN s
    ELSE LET tt == CHOOSE x \in tts : TRUE
         IN RemoveTokens(RemoveToken(s, tt.Token), tts \ {tt})

\* The tag loop body of Replica.ApplyDelta for one entry id.
ApplyDeltaTags(tagSet, tagState) ==
    RemoveTokens([tagSet EXCEPT !.adds = @ \cup tagState.Adds], tagState.Removes)

\* Replica.ApplyDelta without the clock update.
ApplyDeltaClockUnchanged(r, delta) ==
    [entries |-> AddEntries(r.entries, delta.Entries),
     tags    |-> [id \in (DOMAIN r.tags) \cup (DOMAIN delta.Tags) |->
                    IF id \in DOMAIN delta.Tags
                    THEN ApplyDeltaTags(getOrCreateTagSet(r, id), delta.Tags[id])
                    ELSE r.tags[id]],
     clock   |-> r.clock]

ApplyDelta(r, delta) ==
    [entries |-> AddEntries(r.entries, delta.Entries),
     tags    |-> [id \in (DOMAIN r.tags) \cup (DOMAIN delta.Tags) |->
                    IF id \in DOMAIN delta.Tags
                    THEN ApplyDeltaTags(getOrCreateTagSet(r, id), delta.Tags[id])
                    ELSE r.tags[id]],
     clock   |-> ClockUpdate(r.clock, delta.ClockTime)]

----------------------------------------------------------------------------
(* sync: messages, serialized state, fingerprints *)

MsgStateHash == 1

MsgStateRequest == 2

MsgState == 3

\* The orders in which the elements of a Go map can be appended to a slice.
Perms(S) ==
    {f \in [1..Cardinality(S) -> S] : \A x \in S : \E i \in 1..Cardinality(S) : f[i] = x}

\* json.Marshal of one TagSetState: Adds and Removes are slices filled in map order.
TagSetSers(tagState) ==
    {[Adds |-> a, Removes |-> r] : a \in Perms(tagState.Adds), r \in Perms(tagState.Removes)}

\* json.Marshal(ReplicaState): Entries is a slice filled in map order, Tags a
\* map (written with sorted keys) of TagSetState.
Serializations(state) ==
    LET D == DOMAIN state.Tags
        tagSers == {f \in [D -> UNION {TagSetSers(state.Tags[id]) : id \in D}] :
                       \A id \in D : f[id] \in TagSetSers(state.Tags[id])}
    IN {[Entries |-> e, Tags |-> t, ClockTime |-> state.ClockTime] :
           e \in Perms(state.Entries), t \in tagSers}

\* json.Unmarshal into a ReplicaState, read as sets by LoadState.
Deserialize(ser) ==
    [Entries   |-> Range(ser.Entries),
     Tags      |-> [id \in DOMAIN ser.Tags |->
                      [Adds |-> Range(ser.Tags[id].Adds), Removes |-> Range(ser.Tags[id].Removes)]],
     ClockTime |-> ser.ClockTime]

EmptySer == [Entries |-> <<>>, Tags |-> <<>>, ClockTime |-> 0]

\* A framed Message.  Form is "ok", "bad frame" (the frame does not decode or
\* exceeds 10 MiB) or "bad state" (the State bytes do not decode).  Ser is
\* the JSON text the fingerprint is the SHA-256 of (StateHash) or the JSON
\* text of the state (State).
Message(type, form, ser) == [Type |-> type, Form |-> form, Ser |-> ser]

NoMessage == Message(0, "none", EmptySer)

\* The reply p2pService.handleStream writes for msg; ourHash and stateData
\* are the serializations StateHash() and GetState() produced.
handleStreamReply(msg, ourHash, stateData) ==
    IF msg.Type = MsgStateHash
    THEN IF ourHash = msg.Ser THEN Message(MsgStateHash, "ok", ourHash)
         ELSE Message(MsgState, "ok", stateData)
    ELSE IF msg.Type = MsgStateRequest THEN Message(MsgState, "ok", stateData)
    ELSE IF msg.Type = MsgState THEN Message(MsgStateHash, "ok", ourHash)
    ELSE NoMessage

\* The LWW elements and tag tokens of a state.
Held(state) == [Entries |-> state.Entries, Tags |-> state.Tags]

\* A stream: the frames in flight on it, the number of frames each end wrote
\* and read, and what the initiator held when it wrote its hash.
Session(init, peer, stage, req, resp, initSent, initRead, respSent, respRead) ==
    [start |-> Held(Deserialize(EmptySer)), init |-> init, peer |-> peer, stage |-> stage, req |-> req, resp |-> resp,
     initSent |-> initSent, initRead |-> initRead, respSent |-> respSent, respRead |-> respRead]

----------------------------------------------------------------------------
(* State *)

VARIABLES
    replica,     \* node -> Replica
    nextID,      \* number of the next entry id uuid.New() returns
    nextToken,   \* number of the next add token uuid.New() returns
    lastLocal,   \* node -> timestamp drawn by its latest local operation, 0 if none
    lastOp,      \* the operation that produced this state: node, peer, entry id, error
    store,       \* node -> entries and tags tables of its SQLite store, by entry id
    acls,        \* node -> entry_acl table of its store, by entry id
    runs,        \* node -> number of times its engine was started again
    activeSyncs, \* node -> peer ids in p2pService.activeSyncs
    sessions,    \* the open streams: SyncWith calls in flight and handleStream runs
    allowlist,   \* node -> p2pService.allowlist: nil, or the strict flag and the peers
    subs,        \* node -> EventBus.subs of its engine: the subscriptions, in order
    sharedClock, \* a core.Clock several goroutines tick: time, holder of mu
    tickers,     \* goroutine -> its position in Clock.Tick and the values Tick returned
    blobs,       \* the directory of a blob.Store: its sub-directories and blob files
    pending,     \* node -> the Replica.UpdateEntry call in progress on its replica
    metrics      \* node -> syncAttempts, syncSuccesses, syncFailures of its p2pService

vars == <<replica, nextID, nextToken, lastLocal, lastOp, store, acls, runs, activeSyncs,
          sessions, allowlist, subs, sharedClock, tickers, blobs,
          pending, metrics>>

syncVars == <<activeSyncs, sessions, allowlist>>

\* The state of the components that stand beside the engines and the sync
\* service.
sideVars == <<sharedClock, tickers, blobs, pending, metrics>>

\* p2pService.allowlist when Config.AllowlistPath is empty: nil.
NoAllowlist == [on |-> FALSE, strict |-> FALSE, peers |-> {}]

Op(op, node, peer, id, err) ==
    [op |-> op, node |-> node, peer |-> peer, id |-> id, err |-> err]

IDs == 1..MaxIDs

Minted == 1..(nextID - 1)

\* Every node right after construction, the allow-list apart.
InitNodes ==
    /\ replica = [n \in Nodes |-> NewReplica(0)]
    /\ nextID = 1
    /\ nextToken = 1
    /\ lastLocal = [n \in Nodes |-> 0]
    /\ lastOp = Op("init", "", "", 0, "")
    /\ store = [n \in Nodes |-> EmptyMap]
    /\ acls = [n \in Nodes |-> EmptyMap]
    /\ runs = [n \in Nodes |-> 0]
    /\ activeSyncs = [n \in Nodes |-> {}]
    /\ sessions = {}
    /\ subs = [n \in Nodes |-> <<>>]

\* The goroutines that share one clock.
Threads == {"t1", "t2", "t3"}

\* core.NewClockWithTime(initialTime), unlocked; initial keeps initialTime.
NewClockWithTime(initialTime) == [time |-> initialTime, mu |-> "", initial |-> initialTime]

\* No goroutine is inside Tick and none has ticked.
IdleTickers == [t \in Threads |-> [pc |-> "idle", tmp |-> 0, got |-> <<>>]]

\* No UpdateEntry call is in progress.
NoCall ==
    [pc |-> "idle", id |-> 0, content |-> [has |-> FALSE, val |-> ""], existing |-> <<>>,
     before |-> <<>>, merged |-> [has |-> FALSE, val |-> <<>>]]

\* The counters of a new p2pService. Only a specification that sets
\* observed follows their values; elsewhere they are left at zero.
NoMetrics == [observed |-> FALSE, attempts |-> 0, successes |-> 0, failures |-> 0]

\* blob.NewStore: the blobs directory, empty.
NewStore == [dirs |-> {}, files |-> {}]

\* core.NewClock() with no tick issued, blob.NewStore on a fresh data dir.
InitSide ==
    /\ sharedClock = NewClockWithTime(0)
    /\ tickers = IdleTickers
    /\ blobs = NewStore
    /\ pending = [n \in Nodes |-> NoCall]
    /\ metrics = [n \in Nodes |-> NoMetrics]

\* The default configuration: no allow-list.
Init ==
    /\ InitNodes
    /\ allowlist = [n \in Nodes |-> NoAllowlist]
    /\ InitSide

----------------------------------------------------------------------------
(* Replica operations *)

\* The number of add tokens UpdateEntry mints.
TokensNeeded(r, id, hasTags, updateTags) ==
    IF hasTags /\ UpdateErr(r, id) = ""
    THEN Len(NewTagSeq(ORSetElements(getOrCreateTagSet(r, id)), updateTags))
    ELSE 0

ReplicaAdd(n, content, tags) ==
    /\ nextID <= MaxIDs
    /\ nextToken + Len(tags) - 1 <= MaxTokens
    /\ replica[n].clock < MaxClock
    /\ replica' = [replica EXCEPT ![n] =
                      AddEntryWithID(@, nextID, Note, content, tags, nextToken)]
    /\ nextID' = nextID + 1
    /\ nextToken' = nextToken + Len(tags)
    /\ lastLocal' = [lastLocal EXCEPT ![n] = replica'[n].clock]
    /\ lastOp' = Op("add", n, n, nextID, "")
    /\ UNCHANGED <<store, acls, runs, syncVars, subs, sideVars>>

ReplicaUpdate(n, id, content, updateTags) ==
    /\ id \in Minted
    /\ UpdateErr(replica[n], id) = ""
    /\ replica[n].clock < MaxClock
    /\ nextToken + TokensNeeded(replica[n], id, updateTags.has, updateTags.val) - 1 <= MaxTokens
    /\ replica' = [replica EXCEPT ![n] =
                      UpdateEntry(@, id, content.has, content.val,
                                  updateTags.has, updateTags.val, nextToken)]
    /\ nextToken' = nextToken + TokensNeeded(replica[n], id, updateTags.has, updateTags.val)
    /\ lastLocal' = [lastLocal EXCEPT ![n] = replica'[n].clock]
    /\ UNCHANGED nextID
    /\ lastOp' = Op("update", n, n, id, "")
    /\ UNCHANGED <<store, acls, runs, syncVars, subs, sideVars>>

\* UpdateEntry on a missing or tombstoned id returns the error.
ReplicaUpdateFails(n, id) ==
    /\ id \in Minted
    /\ UpdateErr(replica[n], id) # ""
    /\ replica' = [replica EXCEPT ![n] = UpdateEntry(@, id, TRUE, "c1", FALSE, <<>>, nextToken)]
    /\ UNCHANGED <<nextID, nextToken, lastLocal>>
    /\ lastOp' = Op("update", n, n, id, UpdateErr(replica[n], id))
    /\ UNCHANGED <<store, acls, runs, syncVars, subs, sideVars>>

ReplicaDelete(n, id) ==
    /\ id \in Minted
    /\ id \in DOMAIN replica[n].entries
    /\ replica[n].clock < MaxClock
    /\ replica' = [replica EXCEPT ![n] = DeleteEntry(@, id)]
    /\ lastLocal' = [lastLocal EXCEPT ![n] = replica'[n].clock]
    /\ UNCHANGED <<nextID, nextToken>>
    /\ lastOp' = Op("delete", n, n, id, "")
    /\ UNCHANGED <<store, acls, runs, syncVars, subs, sideVars>>

\* DeleteEntry on an id the replica holds no element for returns the error.
ReplicaDeleteFails(n, id) ==
    /\ id \in Minted
    /\ DeleteErr(replica[n], id) # ""
    /\ replica' = [replica EXCEPT ![n] = DeleteEntry(@, id)]
    /\ UNCHANGED <<nextID, nextToken, lastLocal>>
    /\ lastOp' = Op("delete", n, n, id, DeleteErr(replica[n], id))
    /\ UNCHANGED <<store, acls, runs, syncVars, subs, sideVars>>

ReplicaMerge(n, m) ==
    /\ n # m
    /\ ClockUpdate(replica[n].clock, MaxTimestamp(replica[m])) <= MaxClock
    /\ replica' = [replica EXCEPT ![n] = Merge(@, replica[m])]
    /\ UNCHANGED <<nextID, nextToken, lastLocal>>
    /\ lastOp' = Op("merge", n, m, 0, "")
    /\ UNCHANGED <<store, acls, runs, syncVars, subs, sideVars>>

ReplicaApplyDelta(n, m, since) ==
    /\ n # m
    /\ ClockUpdate(replica[n].clock, replica[m].clock) <= MaxClock
    /\ replica' = [replica EXCEPT ![n] = ApplyDelta(@, DeltaState(replica[m], since))]
    /\ UNCHANGED <<nextID, nextToken, lastLocal>>
    /\ lastOp' = Op("delta", n, m, 0, "")
    /\ UNCHANGED <<store, acls, runs, syncVars, subs, sideVars>>

\* mockStateProvider.ApplyState: the received state is loaded into a
\* temporary replica, which is merged into the local one.
ReplicaApplyState(n, m) ==
    /\ n # m
    /\ ClockUpdate(replica[n].clock, MaxTimestamp(replica[m])) <= MaxClock
    /\ LET state == State(replica[m])
           tempReplica == LoadState(NewReplica(state.ClockTime), state)
       IN replica' = [replica EXCEPT ![n] = Merge(@, tempReplica)]
    /\ lastOp' = Op("apply state", n, m, 0, "")
    /\ UNCHANGED <<nextID, nextToken, lastLocal>>
    /\ UNCHANGED <<store, acls, runs, syncVars, subs, sideVars>>

Next ==
    \/ \E n \in Nodes, content \in Contents, tags \in TagLists :
          ReplicaAdd(n, content, tags)
    \/ \E n \in Nodes, id \in IDs, content \in Ptrs(Contents), updateTags \in Ptrs(TagLists) :
          ReplicaUpdate(n, id, content, updateTags)
    \/ \E n \in Nodes, id \in IDs : ReplicaUpdateFails(n, id)
    \/ \E n \in Nodes, id \in IDs : ReplicaDelete(n, id)
    \/ \E n \in Nodes, id \in IDs : ReplicaDeleteFails(n, id)
    \/ \E n, m \in Nodes : ReplicaMerge(n, m)
    \/ \E n, m \in Nodes, since \in SinceValues : ReplicaApplyDelta(n, m, since)
    \/ \E n, m \in Nodes : ReplicaApplyState(n, m)

Spec == Init /\ [][Next]_vars

----------------------------------------------------------------------------
(* Engine: replica + SQLite store + ACL store, encryption key not set *)

\* Replica.getEntryWithTags: the stored entry with Tags read from the OR-Set.
getEntryWithTags(r, id) ==
    [r.entries[id].Entry EXCEPT
        !.Tags = IF id \in DOMAIN r.tags THEN ORSetElements(r.tags[id]) ELSE {}]

\* Replica.ListEntries: the live entries with their tags.
ListEntries(r) ==
    {getEntryWithTags(r, id) : id \in {i \in DOMAIN r.entries : ~r.entries[i].Deleted}}

\* SQLiteStore.Put: upsert of the entries row (created_at is kept on
\* conflict) and replacement of the tags rows.
StorePut(db, entry) ==
    MapPut(db, entry.ID,
           [Type      |-> entry.Type,
            Content   |-> entry.Content,
            CreatedAt |-> IF entry.ID \in DOMAIN db THEN db[entry.ID].CreatedAt
                          ELSE entry.CreatedAt,
            UpdatedAt |-> entry.UpdatedAt,
            Deleted   |-> entry.Deleted,
            Tags      |-> entry.Tags])

RECURSIVE StorePutAll(_, _)
StorePutAll(db, entries) ==
    IF entries = {} THEN db
    ELSE LET e == CHOOSE x \in entries : TRUE
         IN StorePutAll(StorePut(db, e), entries \ {e})

\* SQLiteStore.Delete: UPDATE entries SET deleted = 1; no row is an error.
StoreDeleteErr(db, id) == IF id \in DOMAIN db THEN "" ELSE "store: not found"

StoreDelete(db, id) ==
    IF id \in DOMAIN db THEN [db EXCEPT ![id].Deleted = TRUE] ELSE db

\* acl.Store.GetACL: a missing row reads as a public entry without owner.
GetACL(tbl, id) ==
    IF id \in DOMAIN tbl THEN tbl[id]
    ELSE [Owner |-> "", Readers |-> {}, Writers |-> {}, Public |-> TRUE]

canRead(acl, peerID) ==
    \/ acl.Public
    \/ acl.Owner = peerID \/ acl.Owner = ""
    \/ peerID \in acl.Writers
    \/ peerID \in acl.Readers

canWrite(acl, peerID) ==
    \/ acl.Owner = peerID \/ acl.Owner = ""
    \/ peerID \in acl.Writers

\* engineImpl.localID: uuid.New().String(), drawn anew by every engine.New.
localID(n) == IF runs[n] = 0 THEN n ELSE n \o "#" \o ToString(runs[n])

\* engineImpl.GetEntry
EngineGetEntry(n, id) ==
    IF ~canRead(GetACL(acls[n], id), localID(n))
    THEN [err |-> "permission denied", Content |-> "", Tags |-> {}]
    ELSE GetEntry(replica[n], id)

\* A slice holding the elements of a set, in some order.
RECURSIVE SetToSeq(_)
SetToSeq(S) ==
    IF S = {} THEN <<>>
    ELSE LET x == CHOOSE y \in S : TRUE IN <<x>> \o SetToSeq(S \ {x})

\* The error engineImpl.UpdateEntry returns before it touches the replica.
EngineUpdateErr(n, id) ==
    IF ~canWrite(GetACL(acls[n], id), localID(n)) THEN "permission denied"
    ELSE GetEntry(replica[n], id).err

\* The tag list engineImpl.UpdateEntry hands to the replica.
EngineUpdateTags(n, id, inputTags) ==
    IF inputTags.has THEN inputTags.val ELSE SetToSeq(GetEntry(replica[n], id).Tags)

\* The buffer of a subscription's channel; EventBus.SubscribeWithOptions
\* passes 100.
BufferSize == 2

EventCreated == "created"

EventUpdated == "updated"

EventDeleted == "deleted"

\* engine.Event without its wall-clock Timestamp.
Event(type, id, entryType) == [Type |-> type, EntryID |-> id, EntryType |-> entryType]

\* newSubscription: an open subscription with an empty channel.
newSubscription(opts) == [ch |-> <<>>, closed |-> FALSE, filter |-> opts]

\* subscriptionImpl.matches; Events is empty when no event type is filtered.
matches(s, event) ==
    /\ s.filter.Events # {} => event.Type \in s.filter.Events
    /\ s.filter.EntryType # "" => event.EntryType = s.filter.EntryType

\* subscriptionImpl.send making room by dropping the oldest queued event.
sendDropsOldest(s, event) ==
    IF ~s.closed /\ matches(s, event)
    THEN IF Len(s.ch) < BufferSize
         THEN [s EXCEPT !.ch = Append(@, event)]
         ELSE [s EXCEPT !.ch = Append(Tail(@), event)]
    ELSE s

\* subscriptionImpl.send without the closed check.
sendOnClosed(s, event) ==
    IF matches(s, event)
    THEN IF Len(s.ch) < BufferSize
         THEN [s EXCEPT !.ch = Append(@, event)]
         ELSE s
    ELSE s

\* subscriptionImpl.send: select with a default branch on the buffered channel.
send(s, event) ==
    IF ~s.closed /\ matches(s, event)
    THEN IF Len(s.ch) < BufferSize
         THEN [s EXCEPT !.ch = Append(@, event)]
         ELSE s
    ELSE s

\* EventBus.Publish.
Publish(b, event) == [i \in 1..Len(b) |-> send(b[i], event)]

EngineAddEntry(n, content, tags) ==
    /\ nextID <= MaxIDs
    /\ nextToken + Len(tags) - 1 <= MaxTokens
    /\ replica[n].clock < MaxClock
    /\ replica' = [replica EXCEPT ![n] =
                      AddEntryWithID(@, nextID, Note, content, tags, nextToken)]
    /\ store' = [store EXCEPT ![n] = StorePut(@, getEntryWithTags(replica'[n], nextID))]
    /\ acls' = [acls EXCEPT ![n] =
                   MapPut(@, nextID,
                          [Owner |-> localID(n), Readers |-> {}, Writers |-> {},
                           Public |-> FALSE])]
    /\ nextID' = nextID + 1
    /\ nextToken' = nextToken + Len(tags)
    /\ lastLocal' = [lastLocal EXCEPT ![n] = replica'[n].clock]
    /\ lastOp' = Op("add", n, n, nextID, "")
    /\ subs' = [subs EXCEPT ![n] = Publish(@, Event(EventCreated, nextID, Note))]
    /\ UNCHANGED <<runs, syncVars, sideVars>>

EngineUpdateEntry(n, id, inputContent, inputTags) ==
    /\ id \in Minted
    /\ EngineUpdateErr(n, id) = ""
    /\ replica[n].clock < MaxClock
    /\ LET content == IF inputContent.has THEN inputContent.val
                      ELSE GetEntry(replica[n], id).Content
           tags == EngineUpdateTags(n, id, inputTags)
           minted == TokensNeeded(replica[n], id, TRUE, tags)
       IN /\ nextToken + minted - 1 <= MaxTokens
          /\ replica' = [replica EXCEPT ![n] =
                            UpdateEntry(@, id, TRUE, content, TRUE, tags, nextToken)]
          /\ nextToken' = nextToken + minted
    /\ store' = [store EXCEPT ![n] = StorePut(@, getEntryWithTags(replica'[n], id))]
    /\ lastLocal' = [lastLocal EXCEPT ![n] = replica'[n].clock]
    /\ lastOp' = Op("update", n, n, id, "")
    /\ subs' = [subs EXCEPT ![n] =
                   Publish(@, Event(EventUpdated, id, replica'[n].entries[id].Entry.Type))]
    /\ UNCHANGED <<runs, syncVars, sideVars>>
    /\ UNCHANGED <<nextID, acls, runs>>

\* engineImpl.UpdateEntry returning permission denied, not found or deleted.
EngineUpdateEntryFails(n, id) ==
    /\ id \in Minted
    /\ EngineUpdateErr(n, id) # ""
    /\ lastOp' = Op("update", n, n, id, EngineUpdateErr(n, id))
    /\ UNCHANGED <<runs, syncVars, subs, sideVars>>
    /\ UNCHANGED <<replica, nextID, nextToken, lastLocal, store, acls, runs>>

\* engineImpl.DeleteEntry; the store's error comes after the replica's tombstone.
EngineDeleteEntry(n, id) ==
    /\ id \in Minted
    /\ id \in DOMAIN replica[n].entries
    /\ replica[n].clock < MaxClock
    /\ replica' = [replica EXCEPT ![n] = DeleteEntry(@, id)]
    /\ store' = [store EXCEPT ![n] = StoreDelete(@, id)]
    /\ lastLocal' = [lastLocal EXCEPT ![n] = replica'[n].clock]
    /\ lastOp' = Op("delete", n, n, id, StoreDeleteErr(store[n], id))
    /\ subs' = IF StoreDeleteErr(store[n], id) = ""
                THEN [subs EXCEPT ![n] = Publish(@, Event(EventDeleted, id, ""))]
                ELSE subs
    /\ UNCHANGED <<runs, syncVars, sideVars>>
    /\ UNCHANGED <<nextID, nextToken, acls, runs>>

\* engineImpl.DeleteEntry on an id the replica has never seen.
EngineDeleteEntryFails(n, id) ==
    /\ id \in Minted
    /\ id \notin DOMAIN replica[n].entries
    /\ lastOp' = Op("delete", n, n, id, "not found")
    /\ UNCHANGED <<runs, syncVars, subs, sideVars>>
    /\ UNCHANGED <<replica, nextID, nextToken, lastLocal, store, acls, runs>>

\* engineImpl.GetSyncPayload on m, engineImpl.ApplyRemotePayload on n.
ApplyRemotePayload(n, m) ==
    /\ n # m
    /\ ClockUpdate(replica[n].clock, MaxTimestamp(replica[m])) <= MaxClock
    /\ LET state == State(replica[m])
           tempReplica == LoadState(NewReplica(state.ClockTime), state)
       IN replica' = [replica EXCEPT ![n] = Merge(@, tempReplica)]
    /\ store' = [store EXCEPT ![n] = StorePutAll(@, ListEntries(replica'[n]))]
    /\ lastOp' = Op("apply state", n, m, 0, "")
    /\ UNCHANGED <<runs, syncVars, subs, sideVars>>
    /\ UNCHANGED <<nextID, nextToken, lastLocal, acls, runs>>

EngineNext ==
    \/ \E n \in Nodes, content \in Contents, tags \in TagLists :
          EngineAddEntry(n, content, tags)
    \/ \E n \in Nodes, id \in IDs, content \in Ptrs(Contents), tags \in Ptrs(TagLists) :
          EngineUpdateEntry(n, id, content, tags)
    \/ \E n \in Nodes, id \in IDs : EngineUpdateEntryFails(n, id)
    \/ \E n \in Nodes, id \in IDs : EngineDeleteEntry(n, id)
    \/ \E n \in Nodes, id \in IDs : EngineDeleteEntryFails(n, id)
    \/ \E n, m \in Nodes : ApplyRemotePayload(n, m)

EngineSpec == Init /\ [][EngineNext]_vars

----------------------------------------------------------------------------
(* Engine start on an existing store *)

MaxRestarts == 1

\* uuid.NewSHA1(space, data): the name-based uuid of data in a namespace.
NewSHA1(space, data) == [v |-> 5, n |-> space, name |-> data]

\* SQLiteStore.GetMaxTimestamp: SELECT MAX(updated_at) FROM entries, 0 if none.
GetMaxTimestamp(db) == SetMax({db[id].UpdatedAt : id \in DOMAIN db})

\* SQLiteStore.List: the rows as entries, tombstoned rows only on request.
StoreList(db, deleted) ==
    {[ID |-> id, Type |-> db[id].Type, Content |-> db[id].Content, Tags |-> db[id].Tags,
      CreatedAt |-> db[id].CreatedAt, UpdatedAt |-> db[id].UpdatedAt,
      Deleted |-> db[id].Deleted] : id \in {i \in DOMAIN db : deleted \/ ~db[i].Deleted}}

\* Mutant: hydration drawing a new token for every tag it adds.
RECURSIVE HydrateTagsNewToken(_, _, _)
HydrateTagsNewToken(s, id, tags) ==
    IF tags = {} THEN s
    ELSE LET tag == CHOOSE t \in tags : TRUE
         IN HydrateTagsNewToken(AddWithToken(s, tag, UUIDNew(Cardinality(s.adds) + 1)),
                                id, tags \ {tag})

\* The loop over entry.Tags in Replica.HydrateEntry.
RECURSIVE HydrateTags(_, _, _)
HydrateTags(s, id, tags) ==
    IF tags = {} THEN s
    ELSE LET tag == CHOOSE t \in tags : TRUE
         IN HydrateTags(AddWithToken(s, tag, NewSHA1(id, tag)), id, tags \ {tag})

\* Replica.HydrateEntry
HydrateEntry(r, entry) ==
    [r EXCEPT !.entries = LWWAdd(@, entry),
              !.tags = IF entry.Tags # {}
                       THEN MapPut(@, entry.ID,
                                   HydrateTags(getOrCreateTagSet(r, entry.ID), entry.ID,
                                               entry.Tags))
                       ELSE @]

RECURSIVE HydrateAll(_, _)
HydrateAll(r, entries) ==
    IF entries = {} THEN r
    ELSE LET e == CHOOSE x \in entries : TRUE
         IN HydrateAll(HydrateEntry(r, e), entries \ {e})

\* engine.New on the store a closed engine left behind.
New(db) == HydrateAll(NewReplica(GetMaxTimestamp(db)), StoreList(db, TRUE))

\* The engine of node n is closed and started again from its store.
Restart(n) ==
    /\ runs[n] < MaxRestarts
    /\ replica' = [replica EXCEPT ![n] = New(store[n])]
    /\ runs' = [runs EXCEPT ![n] = @ + 1]
    /\ lastOp' = Op("restart", n, n, 0, "")
    /\ subs' = [subs EXCEPT ![n] = <<>>]    \* NewEventBus
    /\ UNCHANGED <<nextID, nextToken, lastLocal, store, acls, syncVars, sideVars>>

RestartNodes == Nodes

RestartTagLists == {<<"initial">>, <<"initial", "A">>}

RestartUpdates == {[has |-> TRUE, val |-> "c2"]}

RestartTagUpdates == {[has |-> FALSE, val |-> <<>>], [has |-> TRUE, val |-> <<>>]}

RestartNext ==
    \/ \E n \in Nodes, tags \in RestartTagLists : EngineAddEntry(n, "c1", tags)
    \/ \E n \in Nodes, id \in IDs, content \in RestartUpdates, tags \in RestartTagUpdates :
          EngineUpdateEntry(n, id, content, tags)
    \/ \E n \in Nodes, id \in IDs : EngineUpdateEntryFails(n, id)
    \/ \E n \in Nodes, id \in IDs : EngineDeleteEntry(n, id)
    \/ \E n \in Nodes, id \in IDs : EngineDeleteEntryFails(n, id)
    \/ \E n, m \in Nodes : ApplyRemotePayload(n, m)
    \/ \E n \in RestartNodes : Restart(n)

RestartSpec == Init /\ [][RestartNext]_vars

\* The engines of RestartSpec with their replicas also taking deltas from
\* one another (Replica.DeltaState / Replica.ApplyDelta work on the replica
\* alone; nothing of a delta reaches the store).
HeldNext ==
    \/ \E n \in Nodes, tags \in RestartTagLists : EngineAddEntry(n, "c1", tags)
    \/ \E n \in Nodes, id \in IDs, content \in RestartUpdates, tags \in RestartTagUpdates :
          EngineUpdateEntry(n, id, content, tags)
    \/ \E n \in Nodes, id \in IDs : EngineDeleteEntry(n, id)
    \/ \E n, m \in Nodes : ApplyRemotePayload(n, m)
    \/ \E n, m \in Nodes, since \in SinceValues : ReplicaApplyDelta(n, m, since)
    \/ \E n \in RestartNodes : Restart(n)

HeldSpec == Init /\ [][HeldNext]_vars

----------------------------------------------------------------------------
(* Sync service: p2pService.SyncWith and p2pService.handleStream over the   *)
(* engine (EngineAdapter), with a peer X outside the model that can send    *)
(* any frame.                                                               *)

Foreign == "X"

Peers == Nodes \cup {Foreign}

MaxInFlight == 2

MaxSyncClock == 3

SyncAuthors == {"A"}

SyncContents == {"hi"}

SyncTagLists == {<<"initial", "A">>}

ForeignSer == [Entries |-> <<>>, Tags |-> <<>>, ClockTime |-> 1]

\* The frames the foreign peer sends, as a first frame or as a reply.
ForeignMessages ==
    {Message(MsgStateHash, "ok", ForeignSer),
     Message(MsgStateRequest, "ok", EmptySer),
     Message(MsgState, "ok", ForeignSer),
     Message(MsgState, "bad state", EmptySer),
     Message(MsgStateHash, "bad frame", EmptySer)}

\* engineImpl.ApplySyncState; putFails: store.Put returns an error.
ApplySyncState(r, db, state, putFails) ==
    LET tempReplica == LoadState(NewReplica(state.ClockTime), state)
        merged == Merge(r, tempReplica)
        failed == putFails /\ ListEntries(merged) # {}
    IN [replica |-> merged,
        store   |-> IF failed THEN db ELSE StorePutAll(db, ListEntries(merged)),
        err     |-> IF failed THEN "failed to persist merged entry" ELSE ""]

\* EngineAdapter.StateHash / GetState followed by json.Marshal.
StateSers(n) == Serializations(State(replica[n]))

\* Allowlist.IsAllowed answering true for every peer.
IsAllowedAcceptsAll(al, p) == TRUE

\* Allowlist.IsAllowed.
IsAllowed(al, p) == IF ~al.strict THEN TRUE ELSE p \in al.peers

\* p2pService.checkAllowlist of node n for the remote peer p.
checkAllowlist(n, p) == IF ~allowlist[n].on THEN TRUE ELSE IsAllowed(allowlist[n], p)

\* The streams the model lets be open at once.
StreamFree == Cardinality(sessions) < MaxInFlight

\* A step inside a stream, between SyncWith's entry and its return.
SyncStep == Op("sync step", "", "", 0, "")

\* What a closed stream leaves behind: the error its handler returned and the
\* number of frames each end wrote and read.
StreamClosed(op, x, err) ==
    [op |-> op, node |-> "", peer |-> "", id |-> 0, err |-> err,
     initSent |-> x.initSent, initRead |-> x.initRead,
     respSent |-> x.respSent, respRead |-> x.respRead]

\* The calls of SyncWith the model lets a node make.
MaxAttempts == 2

\* atomic.AddInt64(&s.<counter>, 1) on the p2pService of node n.
AddInt64(n, counter) ==
    IF metrics[n].observed THEN [metrics EXCEPT ![n][counter] = @ + 1] ELSE metrics

\* SyncWith counts the attempt, finds the peer in activeSyncs and returns nil.
SyncWithActive(n, p) ==
    /\ p # n
    /\ metrics[n].attempts < MaxAttempts
    /\ p \in activeSyncs[n]
    /\ metrics' = AddInt64(n, "attempts")
    /\ lastOp' = Op("sync already active", "", "", 0, "")
    /\ UNCHANGED <<replica, nextID, nextToken, lastLocal, store, acls, runs, syncVars, subs,
                   sharedClock, tickers, blobs, pending>>

\* SyncWith counts the attempt and marks the peer active; the deferred
\* delete is armed.
SyncWithEnter(n, p) ==
    /\ p # n
    /\ metrics[n].attempts < MaxAttempts
    /\ p \notin activeSyncs[n]
    /\ StreamFree
    /\ metrics' = AddInt64(n, "attempts")
    /\ activeSyncs' = [activeSyncs EXCEPT ![n] = @ \cup {p}]
    /\ sessions' = sessions \cup
          {Session(n, p, "entered", NoMessage, NoMessage, 0, 0, 0, 0)}
    /\ lastOp' = SyncStep
    /\ UNCHANGED <<replica, nextID, nextToken, lastLocal, store, acls, runs, allowlist, subs,
                   sharedClock, tickers, blobs, pending>>

\* SyncWith opens the stream and writes its state hash.
SyncWithSend(x, hash) ==
    /\ x \in sessions
    /\ x.stage = "entered"
    /\ hash \in StateSers(x.init)
    /\ sessions' = (sessions \ {x}) \cup
          {[x EXCEPT !.stage = "sent", !.req = Message(MsgStateHash, "ok", hash),
                     !.initSent = @ + 1, !.start = Held(Deserialize(hash))]}
    /\ lastOp' = SyncStep
    /\ UNCHANGED <<replica, nextID, nextToken, lastLocal, store, acls, runs, activeSyncs, allowlist, subs, sideVars>>

\* SyncWith returning an error without the deferred delete.
SyncWithFailsKeepsActive(x) ==
    /\ x \in sessions
    /\ sessions' = sessions \ {x}
    /\ metrics' = AddInt64(x.init, "failures")
    /\ lastOp' = StreamClosed("sync done", x, "sync failed")
    /\ UNCHANGED <<replica, nextID, nextToken, lastLocal, store, acls, runs, activeSyncs, allowlist, subs,
                   sharedClock, tickers, blobs, pending>>

\* Mutant: a return path of SyncWith that leaves syncFailures alone.
SyncWithFailsUncounted(x) ==
    /\ x \in sessions
    /\ sessions' = sessions \ {x}
    /\ activeSyncs' = [activeSyncs EXCEPT ![x.init] = @ \ {x.peer}]
    /\ lastOp' = StreamClosed("sync done", x, "sync failed")
    /\ UNCHANGED <<replica, nextID, nextToken, lastLocal, store, acls, runs, allowlist, subs, sideVars>>

\* SyncWith returns an error: NewStream, writeMessage or readMessage failed
\* (peer unreachable, deadline, cancelled context) and the failure is
\* counted. The deferred functions close the stream and delete the peer from
\* activeSyncs.
SyncWithFails(x) ==
    /\ x \in sessions
    /\ sessions' = sessions \ {x}
    /\ activeSyncs' = [activeSyncs EXCEPT ![x.init] = @ \ {x.peer}]
    /\ metrics' = AddInt64(x.init, "failures")
    /\ lastOp' = StreamClosed("sync done", x, "sync failed")
    /\ UNCHANGED <<replica, nextID, nextToken, lastLocal, store, acls, runs, allowlist, subs,
                   sharedClock, tickers, blobs, pending>>

\* Mutant: handleStream turning away the stream of a peer this node has a
\* SyncWith call in flight to.
HandleStreamWhenIdle(x, ourHash, stateData) ==
    /\ x \in sessions
    /\ x.stage = "sent"
    /\ x.peer \in Nodes
    /\ x.init \notin activeSyncs[x.peer]
    /\ checkAllowlist(x.peer, x.init)
    /\ ourHash \in StateSers(x.peer)
    /\ stateData \in StateSers(x.peer)
    /\ LET resp == handleStreamReply(x.req, ourHash, stateData)
       IN sessions' = (sessions \ {x}) \cup
             {[x EXCEPT !.stage = "replied", !.req = NoMessage, !.resp = resp,
                        !.respRead = @ + 1, !.respSent = @ + 1]}
    /\ lastOp' = SyncStep
    /\ UNCHANGED <<replica, nextID, nextToken, lastLocal, store, acls, runs, activeSyncs, allowlist, subs, sideVars>>

\* handleStream on the peer of a SyncWith call: one frame read, one reply.
HandleStream(x, ourHash, stateData) ==
    /\ x \in sessions
    /\ x.stage = "sent"
    /\ x.peer \in Nodes
    /\ checkAllowlist(x.peer, x.init)
    /\ ourHash \in StateSers(x.peer)
    /\ stateData \in StateSers(x.peer)
    /\ LET resp == handleStreamReply(x.req, ourHash, stateData)
       IN sessions' = (sessions \ {x}) \cup
             {[x EXCEPT !.stage = "replied", !.req = NoMessage, !.resp = resp,
                        !.respRead = @ + 1, !.respSent = @ + 1]}
    /\ lastOp' = SyncStep
    /\ UNCHANGED <<replica, nextID, nextToken, lastLocal, store, acls, runs, activeSyncs, allowlist, subs, sideVars>>

\* handleStream on the peer of a SyncWith call when checkAllowlist answers
\* false: the deferred Close runs, nothing is read or written.
HandleStreamRejected(x) ==
    /\ x \in sessions
    /\ x.stage = "sent"
    /\ x.peer \in Nodes
    /\ ~checkAllowlist(x.peer, x.init)
    /\ sessions' = (sessions \ {x}) \cup {[x EXCEPT !.stage = "rejected", !.req = NoMessage]}
    /\ lastOp' = Op("sync rejected", x.peer, x.init, 0, "")
    /\ UNCHANGED <<replica, nextID, nextToken, lastLocal, store, acls, runs, activeSyncs, allowlist, subs, sideVars>>

\* The foreign peer answers a SyncWith call.
ForeignReply(x, msg) ==
    /\ x \in sessions
    /\ x.stage = "sent"
    /\ x.peer = Foreign
    /\ sessions' = (sessions \ {x}) \cup
          {[x EXCEPT !.stage = "replied", !.req = NoMessage, !.resp = msg,
                     !.respRead = @ + 1, !.respSent = @ + 1]}
    /\ lastOp' = SyncStep
    /\ UNCHANGED <<replica, nextID, nextToken, lastLocal, store, acls, runs, activeSyncs, allowlist, subs, sideVars>>

\* The error SyncWith returns after it read the response.
ReceiveErr(x, applied) ==
    IF x.resp.Form = "bad frame" THEN "failed to read response"
    ELSE IF x.resp.Type = MsgState /\ x.resp.Form = "bad state" THEN "failed to decode state"
    ELSE IF x.resp.Type = MsgState THEN applied.err
    ELSE ""

\* SyncWith treating a hash reply as a reason to ask again on the same stream.
SyncWithReceiveAsksAgain(x, putFails) ==
    /\ x \in sessions
    /\ x.stage = "replied"
    /\ ~putFails
    /\ x.initRead < 3
    /\ sessions' = (sessions \ {x}) \cup
          {[x EXCEPT !.stage = "sent", !.initRead = @ + 1, !.initSent = @ + 1,
                     !.req = Message(MsgStateRequest, "ok", EmptySer),
                     !.resp = NoMessage, !.respRead = 0, !.respSent = 0]}
    /\ lastOp' = SyncStep
    /\ UNCHANGED <<replica, nextID, nextToken, lastLocal, store, acls, runs, activeSyncs, allowlist, subs, sideVars>>

\* SyncWith reads the response, acts on it and returns; the deferred
\* functions close the stream and delete the peer from activeSyncs.
SyncWithReceive(x, putFails) ==
    /\ x \in sessions
    /\ x.stage = "replied"
    /\ LET n == x.init
           applies == x.resp.Form = "ok" /\ x.resp.Type = MsgState
           answers == x.resp.Form = "ok" /\ x.resp.Type = MsgStateRequest
           applied == ApplySyncState(replica[n], store[n], Deserialize(x.resp.Ser), putFails)
       IN /\ putFails => applies    \* store.Put is reached only through ApplyState
          /\ applies => applied.replica.clock <= MaxSyncClock
          /\ replica' = IF applies THEN [replica EXCEPT ![n] = applied.replica] ELSE replica
          /\ store' = IF applies THEN [store EXCEPT ![n] = applied.store] ELSE store
          /\ lastOp' = StreamClosed("sync done",
                                    [x EXCEPT !.initRead = @ + 1,
                                              !.initSent = IF answers THEN @ + 1 ELSE @],
                                    ReceiveErr(x, applied))
          /\ metrics' = AddInt64(n, IF ReceiveErr(x, applied) = "" THEN "successes"
                                    ELSE "failures")
    /\ sessions' = sessions \ {x}
    /\ activeSyncs' = [activeSyncs EXCEPT ![x.init] = @ \ {x.peer}]
    /\ UNCHANGED <<nextID, nextToken, lastLocal, acls, runs, allowlist, subs,
                   sharedClock, tickers, blobs, pending>>

\* The error handleStream met and dropped: readMessage's, json.Unmarshal's or
\* ApplyState's.
HandleErr(msg, applied) ==
    IF msg.Form = "bad frame" THEN "failed to read message"
    ELSE IF msg.Type = MsgState /\ msg.Form = "bad state" THEN "failed to decode state"
    ELSE IF msg.Type = MsgState THEN applied.err
    ELSE ""

\* handleStream on a stream the foreign peer opened: one frame read, the
\* state applied if the frame carries one, at most one reply written, the
\* stream closed.
HandleForeignStream(m, msg, putFails) ==
    /\ checkAllowlist(m, Foreign)
    /\ LET applies == msg.Form = "ok" /\ msg.Type = MsgState
           applied == ApplySyncState(replica[m], store[m], Deserialize(msg.Ser), putFails)
           replied == msg.Form = "ok" /\
                      \A ourHash, stateData \in StateSers(m) :
                         handleStreamReply(msg, ourHash, stateData) # NoMessage
       IN /\ putFails => applies    \* store.Put is reached only through ApplyState
          /\ applies => applied.replica.clock <= MaxSyncClock
          /\ replica' = IF applies THEN [replica EXCEPT ![m] = applied.replica] ELSE replica
          /\ store' = IF applies THEN [store EXCEPT ![m] = applied.store] ELSE store
          /\ lastOp' = [StreamClosed("sync handled",
                                     Session(Foreign, m, "handled", NoMessage, NoMessage,
                                             1, 0, IF replied THEN 1 ELSE 0, 1),
                                     HandleErr(msg, applied))
                           EXCEPT !.node = m, !.peer = Foreign]
    /\ UNCHANGED <<nextID, nextToken, lastLocal, acls, runs, syncVars, subs, sideVars>>

\* handleStream on a stream the foreign peer opened when checkAllowlist
\* answers false: the stream is closed, nothing is read or written.
HandleForeignRejected(m) ==
    /\ ~checkAllowlist(m, Foreign)
    /\ lastOp' = Op("sync rejected", m, Foreign, 0, "")
    /\ UNCHANGED <<replica, nextID, nextToken, lastLocal, store, acls, runs, syncVars, subs, sideVars>>

\* p2pService.ConnectPeer: the peer is added to the allow-list if there is one.
ConnectPeer(n, p) ==
    /\ p # n
    /\ allowlist' = IF allowlist[n].on
                       THEN [allowlist EXCEPT ![n].peers = @ \cup {p}]
                       ELSE allowlist
    /\ lastOp' = Op("connect", n, p, 0, "")
    /\ UNCHANGED <<replica, nextID, nextToken, lastLocal, store, acls, runs, activeSyncs, sessions, subs, sideVars>>

SyncNext ==
    \/ \E n \in SyncAuthors, content \in SyncContents, tags \in SyncTagLists :
          EngineAddEntry(n, content, tags)
    \/ \E n \in Nodes, p \in Peers : SyncWithActive(n, p)
    \/ \E n \in Nodes, p \in Peers : SyncWithEnter(n, p)
    \/ \E x \in sessions : x.stage = "entered" /\
          \E hash \in StateSers(x.init) : SyncWithSend(x, hash)
    \/ \E x \in sessions : SyncWithFails(x)
    \/ \E x \in sessions : x.stage = "sent" /\ x.peer \in Nodes /\
          \E ourHash, stateData \in StateSers(x.peer) : HandleStream(x, ourHash, stateData)
    \/ \E x \in sessions, msg \in ForeignMessages : ForeignReply(x, msg)
    \/ \E x \in sessions, putFails \in BOOLEAN : SyncWithReceive(x, putFails)
    \/ \E m \in Nodes, msg \in ForeignMessages, putFails \in BOOLEAN :
          HandleForeignStream(m, msg, putFails)

SyncSpec == Init /\ [][SyncNext]_vars

----------------------------------------------------------------------------
(* Sync service with an allow-list (Config.AllowlistPath set): NewAllowlist *)
(* loads the peers file and takes the strict flag from the configuration.   *)

\* The allow-lists a node starts with: none, a non-strict one, a strict one
\* with no peer, a strict one that lists the other node.
AllowConfigs(n) ==
    {NoAllowlist,
     [on |-> TRUE, strict |-> FALSE, peers |-> {}],
     [on |-> TRUE, strict |-> TRUE, peers |-> {}],
     [on |-> TRUE, strict |-> TRUE, peers |-> Nodes \ {n}]}

AllowInit ==
    /\ InitNodes
    /\ \E f \in [Nodes -> UNION {AllowConfigs(n) : n \in Nodes}] :
          /\ \A n \in Nodes : f[n] \in AllowConfigs(n)
          /\ allowlist = f
    /\ InitSide

\* The frames the foreign peer opens a stream with here.
AllowMessages ==
    {Message(MsgStateHash, "ok", ForeignSer), Message(MsgState, "ok", ForeignSer)}

AllowNext ==
    \/ \E n \in SyncAuthors, content \in SyncContents, tags \in SyncTagLists :
          EngineAddEntry(n, content, tags)
    \/ \E n \in Nodes, p \in Peers : ConnectPeer(n, p)
    \/ \E n \in Nodes, p \in Nodes : sessions = {} /\ SyncWithEnter(n, p)
    \/ \E x \in sessions : x.stage = "entered" /\
          \E hash \in StateSers(x.init) : SyncWithSend(x, hash)
    \/ \E x \in sessions : SyncWithFails(x)
    \/ \E x \in sessions : x.stage = "sent" /\ x.peer \in Nodes /\
          \E ourHash, stateData \in StateSers(x.peer) : HandleStream(x, ourHash, stateData)
    \/ \E x \in sessions : HandleStreamRejected(x)
    \/ \E x \in sessions : SyncWithReceive(x, FALSE)
    \/ \E m \in Nodes, msg \in AllowMessages : HandleForeignStream(m, msg, FALSE)
    \/ \E m \in Nodes : HandleForeignRejected(m)

AllowSpec == AllowInit /\ [][AllowNext]_vars

----------------------------------------------------------------------------
(* Sync sessions between the two nodes with every goroutine scheduled: a    *)
(* SyncWith call writes and reads within its stream deadline, the host      *)
(* starts handleStream for every stream a peer opens.                       *)

\* The next step of the session node n opened toward p: SyncWith writes its
\* hash, the peer's handleStream replies, or SyncWith reads the reply.
SessionStep(n, p) ==
    \E x \in sessions :
       /\ x.init = n /\ x.peer = p
       /\ \/ x.stage = "entered" /\ \E hash \in StateSers(n) : SyncWithSend(x, hash)
          \/ x.stage = "sent" /\
                \E ourHash, stateData \in StateSers(p) : HandleStream(x, ourHash, stateData)
          \/ x.stage = "replied" /\ SyncWithReceive(x, FALSE)

\* Entries are written between sessions, and a call is started only if the
\* clock it can reach by applying the peer's state stays within MaxSyncClock.
MutualNext ==
    \/ \E n \in SyncAuthors, content \in SyncContents :
          sessions = {} /\ EngineAddEntry(n, content, <<"initial">>)
    \/ \E n \in Nodes, p \in Nodes :
          /\ ClockUpdate(replica[n].clock,
                         SetMax({MaxTimestamp(replica[m]) : m \in Nodes})) <= MaxSyncClock
          /\ SyncWithEnter(n, p)
    \/ \E n \in Nodes, p \in Nodes : SyncWithActive(n, p)
    \/ \E n \in Nodes, p \in Nodes : SessionStep(n, p)
    \/ \E x \in sessions : SyncWithFails(x)

MutualSpec ==
    /\ Init
    /\ [][MutualNext]_vars
    /\ \A n \in Nodes, p \in Nodes : WF_vars(SessionStep(n, p))

----------------------------------------------------------------------------
(* Sync service with its counters followed: p2pService.Metrics.             *)

MetricsInit ==
    /\ InitNodes
    /\ allowlist = [n \in Nodes |-> NoAllowlist]
    /\ sharedClock = NewClockWithTime(0)
    /\ tickers = IdleTickers
    /\ blobs = NewStore
    /\ pending = [n \in Nodes |-> NoCall]
    /\ metrics = [n \in Nodes |-> [NoMetrics EXCEPT !.observed = TRUE]]

\* The replies of the foreign peer here: a frame that does not decode, a
\* state, a state that does not decode.
MetricsMessages ==
    {Message(MsgStateHash, "bad frame", EmptySer),
     Message(MsgState, "ok", ForeignSer),
     Message(MsgState, "bad state", EmptySer)}

MetricsNext ==
    \/ \E n \in SyncAuthors, content \in SyncContents : EngineAddEntry(n, content, <<>>)
    \/ \E n \in Nodes, p \in Peers : SyncWithActive(n, p)
    \/ \E n \in Nodes, p \in Peers : SyncWithEnter(n, p)
    \/ \E x \in sessions : x.stage = "entered" /\
          \E hash \in StateSers(x.init) : SyncWithSend(x, hash)
    \/ \E x \in sessions : SyncWithFails(x)
    \/ \E x \in sessions : x.stage = "sent" /\ x.peer \in Nodes /\
          \E ourHash, stateData \in StateSers(x.peer) : HandleStream(x, ourHash, stateData)
    \/ \E x \in sessions, msg \in MetricsMessages : ForeignReply(x, msg)
    \/ \E x \in sessions, putFails \in BOOLEAN : SyncWithReceive(x, putFails)

MetricsSpec == MetricsInit /\ [][MetricsNext]_vars

----------------------------------------------------------------------------
(* Event bus: subscribers of one engine, the events its AddEntry,           *)
(* UpdateEntry and DeleteEntry publish, and the readers of the channels.    *)

MaxSubs == 2

BusNodes == {"A"}

BusContents == {"c1"}

BusUpdates == {[has |-> TRUE, val |-> "c2"]}

BusTagUpdates == {[has |-> FALSE, val |-> <<>>]}

\* SubscriptionOptions: every event, deletions only, events of notes only.
FilterOptions ==
    {[Events |-> {}, EntryType |-> ""],
     [Events |-> {EventDeleted}, EntryType |-> ""],
     [Events |-> {}, EntryType |-> Note]}

\* The sequence b without its i-th element.
RemoveAt(b, i) == [j \in 1..(Len(b) - 1) |-> IF j < i THEN b[j] ELSE b[j + 1]]

\* EventBus.SubscribeWithOptions.
Subscribe(n, opts) ==
    /\ Len(subs[n]) < MaxSubs
    /\ subs' = [subs EXCEPT ![n] = Append(@, newSubscription(opts))]
    /\ lastOp' = Op("subscribe", n, "", 0, "")
    /\ UNCHANGED <<replica, nextID, nextToken, lastLocal, store, acls, runs, syncVars, sideVars>>

\* subscriptionImpl.Close by the subscriber: the channel is closed unless it
\* already was, what it buffered can still be read, the bus keeps the
\* subscription.
SubscriptionClose(n, i) ==
    /\ i \in 1..Len(subs[n])
    /\ subs' = [subs EXCEPT ![n][i].closed = TRUE]
    /\ lastOp' = Op("close subscription", n, "", i, "")
    /\ UNCHANGED <<replica, nextID, nextToken, lastLocal, store, acls, runs, syncVars, sideVars>>

\* EventBus.Unsubscribe.
Unsubscribe(n, i) ==
    /\ i \in 1..Len(subs[n])
    /\ subs' = [subs EXCEPT ![n] = RemoveAt(@, i)]
    /\ lastOp' = Op("unsubscribe", n, "", i, "")
    /\ UNCHANGED <<replica, nextID, nextToken, lastLocal, store, acls, runs, syncVars, sideVars>>

\* A subscriber receives from the channel Events() returns.
Receive(n, i) ==
    /\ i \in 1..Len(subs[n])
    /\ subs[n][i].ch # <<>>
    /\ subs' = [subs EXCEPT ![n][i].ch = Tail(@)]
    /\ lastOp' = Op("receive", n, "", i, "")
    /\ UNCHANGED <<replica, nextID, nextToken, lastLocal, store, acls, runs, syncVars, sideVars>>

EventNext ==
    \/ \E n \in BusNodes, content \in BusContents : EngineAddEntry(n, content, <<>>)
    \/ \E n \in BusNodes, id \in IDs, content \in BusUpdates, tags \in BusTagUpdates :
          EngineUpdateEntry(n, id, content, tags)
    \/ \E n \in BusNodes, id \in IDs : EngineDeleteEntry(n, id)
    \/ \E n \in BusNodes, opts \in FilterOptions : Subscribe(n, opts)
    \/ \E n \in BusNodes, i \in 1..MaxSubs : SubscriptionClose(n, i)
    \/ \E n \in BusNodes, i \in 1..MaxSubs : Unsubscribe(n, i)
    \/ \E n \in BusNodes, i \in 1..MaxSubs : Receive(n, i)

EventSpec == Init /\ [][EventNext]_vars

\* engineImpl.Close: the store's database handle is closed; the rows it
\* wrote stay in the file, the event bus is left as it is.
EngineClose(n) ==
    /\ lastOp' = Op("close", n, "", 0, "")
    /\ UNCHANGED <<replica, nextID, nextToken, lastLocal, store, acls, runs, syncVars, subs, sideVars>>

\* The engine of EventSpec until its owner closes it; the behaviour ends in
\* the state Close returns in.
ShutdownNext ==
    \/ \E n \in BusNodes, content \in BusContents :
          lastOp.op # "close" /\ EngineAddEntry(n, content, <<>>)
    \/ \E n \in BusNodes, id \in IDs, content \in BusUpdates, tags \in BusTagUpdates :
          lastOp.op # "close" /\ EngineUpdateEntry(n, id, content, tags)
    \/ \E n \in BusNodes, id \in IDs : lastOp.op # "close" /\ EngineDeleteEntry(n, id)
    \/ \E n \in BusNodes, opts \in FilterOptions : lastOp.op # "close" /\ Subscribe(n, opts)
    \/ \E n \in BusNodes, i \in 1..MaxSubs : lastOp.op # "close" /\ SubscriptionClose(n, i)
    \/ \E n \in BusNodes, i \in 1..MaxSubs : lastOp.op # "close" /\ Receive(n, i)
    \/ \E n \in BusNodes : lastOp.op # "close" /\ EngineClose(n)

ShutdownSpec == Init /\ [][ShutdownNext]_vars

----------------------------------------------------------------------------
(* core.Clock ticked by concurrent goroutines. Tick is taken apart into its *)
(* steps: mu.Lock, the load and the store of c.time++, and the return,      *)
(* which reads c.time before the deferred mu.Unlock runs.                   *)

TicksPerThread == 2

InitialTimes == {0, 3}

\* c.mu.Lock() that lets a goroutine in while another holds the mutex.
TickLockNoExclusion(t) ==
    /\ tickers[t].pc = "idle"
    /\ Len(tickers[t].got) < TicksPerThread
    /\ sharedClock' = [sharedClock EXCEPT !.mu = t]
    /\ tickers' = [tickers EXCEPT ![t].pc = "locked"]
    /\ UNCHANGED <<replica, nextID, nextToken, lastLocal, lastOp, store, acls, runs,
                   syncVars, subs, blobs, pending, metrics>>

\* c.mu.Lock() at the head of Tick.
TickLock(t) ==
    /\ tickers[t].pc = "idle"
    /\ Len(tickers[t].got) < TicksPerThread
    /\ sharedClock.mu = ""
    /\ sharedClock' = [sharedClock EXCEPT !.mu = t]
    /\ tickers' = [tickers EXCEPT ![t].pc = "locked"]
    /\ UNCHANGED <<replica, nextID, nextToken, lastLocal, lastOp, store, acls, runs,
                   syncVars, subs, blobs, pending, metrics>>

\* c.time++, the load.
TickLoad(t) ==
    /\ tickers[t].pc = "locked"
    /\ tickers' = [tickers EXCEPT ![t].pc = "loaded", ![t].tmp = sharedClock.time]
    /\ UNCHANGED <<replica, nextID, nextToken, lastLocal, lastOp, store, acls, runs,
                   syncVars, subs, sharedClock, blobs, pending, metrics>>

\* c.time++, the store.
TickStore(t) ==
    /\ tickers[t].pc = "loaded"
    /\ sharedClock' = [sharedClock EXCEPT !.time = tickers[t].tmp + 1]
    /\ tickers' = [tickers EXCEPT ![t].pc = "stored"]
    /\ UNCHANGED <<replica, nextID, nextToken, lastLocal, lastOp, store, acls, runs,
                   syncVars, subs, blobs, pending, metrics>>

\* return c.time, then the deferred c.mu.Unlock().
TickReturn(t) ==
    /\ tickers[t].pc = "stored"
    /\ tickers' = [tickers EXCEPT ![t].pc = "idle", ![t].got = Append(@, sharedClock.time)]
    /\ sharedClock' = [sharedClock EXCEPT !.mu = ""]
    /\ UNCHANGED <<replica, nextID, nextToken, lastLocal, lastOp, store, acls, runs,
                   syncVars, subs, blobs, pending, metrics>>

ClockInit ==
    /\ InitNodes
    /\ allowlist = [n \in Nodes |-> NoAllowlist]
    /\ \E initialTime \in InitialTimes : sharedClock = NewClockWithTime(initialTime)
    /\ tickers = IdleTickers
    /\ blobs = NewStore
    /\ pending = [n \in Nodes |-> NoCall]
    /\ metrics = [n \in Nodes |-> NoMetrics]

ClockNext ==
    \/ \E t \in Threads : TickLock(t)
    \/ \E t \in Threads : TickLoad(t)
    \/ \E t \in Threads : TickStore(t)
    \/ \E t \in Threads : TickReturn(t)

ClockSpec == ClockInit /\ [][ClockNext]_vars

----------------------------------------------------------------------------
(* blob.Store: a directory that holds one sub-directory per two-character   *)
(* CID prefix and each blob as the file <dir>/<prefix>/<cid>.               *)

BlobData == {"d1", "d2", "d3"}

\* computeCID: the hex SHA-256 of the data, as its first two characters and
\* the other sixty-two. d1 and d2 share a prefix.
computeCID(data) ==
    IF data = "d1" THEN [prefix |-> "ab", rest |-> "01"]
    ELSE IF data = "d2" THEN [prefix |-> "ab", rest |-> "02"]
    ELSE [prefix |-> "cd", rest |-> "03"]

CIDs == {computeCID(data) : data \in BlobData}

\* Store.Has: os.Stat of blobPath(cid) succeeds.
BlobHas(fs, cid) == cid \in fs.files

\* os.ReadDir(s.dir): the entries directly inside the blobs directory. The
\* store creates nothing there but the prefix sub-directories.
ReadDir(fs) == {[Name |-> p, IsDir |-> TRUE, Len64 |-> FALSE] : p \in fs.dirs}

\* Store.List: the names of the entries of s.dir that are not directories
\* and are 64 characters long.
BlobList(fs) == {e.Name : e \in {x \in ReadDir(fs) : ~x.IsDir /\ x.Len64}}

\* Store.Delete.
BlobDelete(fs, cid) == [fs EXCEPT !.files = @ \ {cid}]

\* The loop of Store.GarbageCollect over the listed cids.
RECURSIVE CollectAll(_, _, _)
CollectAll(fs, all, referencedCIDs) ==
    IF all = {} THEN [fs |-> fs, removed |-> 0]
    ELSE LET cid == CHOOSE c \in all : TRUE
             rest == CollectAll(IF cid \in referencedCIDs THEN fs ELSE BlobDelete(fs, cid),
                                all \ {cid}, referencedCIDs)
         IN [fs |-> rest.fs,
             removed |-> IF cid \in referencedCIDs THEN rest.removed ELSE rest.removed + 1]

\* Store.GarbageCollect.
GarbageCollect(fs, referencedCIDs) == CollectAll(fs, BlobList(fs), referencedCIDs)

BlobOp(op, cid, err) == [op |-> op, node |-> "", peer |-> "", id |-> 0, err |-> err, cid |-> cid]

\* Store.Put: the temp file is written next to the final path, which fails
\* when the prefix sub-directory does not exist.
BlobPut(data) ==
    LET cid == computeCID(data)
    IN /\ blobs' = IF BlobHas(blobs, cid) \/ cid.prefix \notin blobs.dirs
                   THEN blobs
                   ELSE [blobs EXCEPT !.files = @ \cup {cid}]
       /\ lastOp' = BlobOp("put", cid,
                           IF BlobHas(blobs, cid) \/ cid.prefix \in blobs.dirs
                           THEN "" ELSE "failed to write blob")
       /\ UNCHANGED <<replica, nextID, nextToken, lastLocal, store, acls, runs, syncVars,
                      subs, sharedClock, tickers, pending, metrics>>

\* Store.PutWithSubdir: ensureSubdir, then as Put.
BlobPutWithSubdir(data) ==
    LET cid == computeCID(data)
    IN /\ blobs' = [dirs |-> blobs.dirs \cup {cid.prefix}, files |-> blobs.files \cup {cid}]
       /\ lastOp' = BlobOp("put", cid, "")
       /\ UNCHANGED <<replica, nextID, nextToken, lastLocal, store, acls, runs, syncVars,
                      subs, sharedClock, tickers, pending, metrics>>

\* Store.Delete called by the owner of the store.
BlobRemove(cid) ==
    /\ blobs' = BlobDelete(blobs, cid)
    /\ lastOp' = BlobOp("delete", cid, "")
    /\ UNCHANGED <<replica, nextID, nextToken, lastLocal, store, acls, runs, syncVars,
                   subs, sharedClock, tickers, pending, metrics>>

\* Store.GarbageCollect called with the set of cids still in use.
BlobGarbageCollect(referencedCIDs) ==
    /\ blobs' = GarbageCollect(blobs, referencedCIDs).fs
    /\ lastOp' = [op |-> "gc", node |-> "", peer |-> "", id |-> 0, err |-> "",
                  referenced |-> referencedCIDs,
                  removed |-> GarbageCollect(blobs, referencedCIDs).removed]
    /\ UNCHANGED <<replica, nextID, nextToken, lastLocal, store, acls, runs, syncVars,
                   subs, sharedClock, tickers, pending, metrics>>

BlobNext ==
    \/ \E data \in BlobData : BlobPut(data)
    \/ \E data \in BlobData : BlobPutWithSubdir(data)
    \/ \E cid \in CIDs : BlobRemove(cid)
    \/ \E referencedCIDs \in SUBSET CIDs : BlobGarbageCollect(referencedCIDs)

BlobSpec == Init /\ [][BlobNext]_vars

----------------------------------------------------------------------------
(* A local Replica.UpdateEntry running while a sync session merges into the *)
(* same replica. The Replica has no lock (only its Clock has one), so the   *)
(* merge can run between the lookup UpdateEntry starts with and the writes  *)
(* it ends with.                                                            *)

ConcContents == {"c1"}

ConcTagLists == {<<>>, <<"initial">>}

ConcUpdates == {[has |-> FALSE, val |-> "c2"], [has |-> TRUE, val |-> "c2"]}

\* Replica.UpdateEntry from clock.Tick() on: r is the replica as it is now,
\* existing the entry the lookup returned.
UpdateEntryFrom(r, existing, id, hasContent, content, hasTags, updateTags, tok0) ==
    LET timestamp == Tick(r.clock)
        updated == [existing EXCEPT
                       !.Content = IF hasContent THEN content ELSE @,
                       !.UpdatedAt = timestamp]
        tagSet == getOrCreateTagSet(r, id)
        currentTags == ORSetElements(tagSet)
        newTags == Range(updateTags)
        removed == RemoveAll(tagSet, currentTags \ newTags)
    IN [entries |-> LWWAdd(r.entries, updated),
        tags    |-> IF hasTags
                    THEN MapPut(r.tags, id,
                                AddAll(removed, NewTagSeq(currentTags, updateTags), tok0))
                    ELSE r.tags,
        clock   |-> timestamp]

\* UpdateEntry looks the entry up and finds it live.
UpdateLookup(n, id, content) ==
    /\ pending[n].pc = "idle"
    /\ id \in Minted
    /\ UpdateErr(replica[n], id) = ""
    /\ pending' = [pending EXCEPT ![n] =
                      [pc |-> "looked", id |-> id, content |-> content,
                       existing |-> replica[n].entries[id].Entry,
                       before |-> replica[n], merged |-> [has |-> FALSE, val |-> <<>>]]]
    /\ lastOp' = Op("update lookup", n, n, id, "")
    /\ UNCHANGED <<replica, nextID, nextToken, lastLocal, store, acls, runs, syncVars,
                   subs, sharedClock, tickers, blobs, metrics>>

\* Replica.Merge called by a sync session while the UpdateEntry call is
\* between its lookup and its writes.
MergeDuring(n, m) ==
    /\ n # m
    /\ pending[n].pc = "looked"
    /\ ~pending[n].merged.has
    /\ ClockUpdate(replica[n].clock, MaxTimestamp(replica[m])) < MaxClock
    /\ replica' = [replica EXCEPT ![n] = Merge(@, replica[m])]
    /\ pending' = [pending EXCEPT ![n].merged = [has |-> TRUE, val |-> replica[m]]]
    /\ lastOp' = Op("merge", n, m, 0, "")
    /\ UNCHANGED <<nextID, nextToken, lastLocal, store, acls, runs, syncVars,
                   subs, sharedClock, tickers, blobs, metrics>>

\* UpdateEntry ticks the clock, writes the updated clone of the entry it
\* looked up, and returns nil.
UpdateReturn(n) ==
    /\ pending[n].pc = "looked"
    /\ replica[n].clock < MaxClock
    /\ replica' = [replica EXCEPT ![n] =
                      UpdateEntryFrom(@, pending[n].existing, pending[n].id,
                                      pending[n].content.has, pending[n].content.val,
                                      FALSE, <<>>, nextToken)]
    /\ pending' = [pending EXCEPT ![n] = NoCall]
    /\ lastLocal' = [lastLocal EXCEPT ![n] = replica'[n].clock]
    /\ lastOp' = Op("update", n, n, pending[n].id, "")
    /\ UNCHANGED <<nextID, nextToken, store, acls, runs, syncVars,
                   subs, sharedClock, tickers, blobs, metrics>>

ConcNext ==
    \/ \E n \in Nodes, content \in ConcContents, tags \in ConcTagLists :
          pending[n].pc = "idle" /\ ReplicaAdd(n, content, tags)
    \/ \E n \in Nodes, id \in IDs : pending[n].pc = "idle" /\ ReplicaDelete(n, id)
    \/ \E n, m \in Nodes : pending[n].pc = "idle" /\ ReplicaMerge(n, m)
    \/ \E n \in Nodes, id \in IDs, content \in ConcUpdates : UpdateLookup(n, id, content)
    \/ \E n, m \in Nodes : MergeDuring(n, m)
    \/ \E n \in Nodes : UpdateReturn(n)

ConcSpec == Init /\ [][ConcNext]_vars

----------------------------------------------------------------------------
(* Claims *)

\* replicasEqual of the property tests: LWW elements per id, add and remove
\* token pairs per entry, clock value.
replicasEqual(a, b) == State(a) = State(b)

\* C1: after A.merge(B) then B.merge(A), with no local mutation in between,
\* get(id) returns the same result (error, payload, tag set) on both replicas
\* for every entry id, for every pair of reachable replica states.
C1_ConvergenceAfterMutualMerge ==
    \A a, b \in Nodes :
        a # b =>
            LET a1 == Merge(replica[a], replica[b])
                b1 == Merge(replica[b], a1)
            IN \A id \in IDs : GetEntry(a1, id) = GetEntry(b1, id)

\* C2: merge is commutative: merging B into A and merging A into B yield
\* equal replicas (LWW elements, tag token pairs, clock value).
C2_MergeCommutative ==
    \A a, b \in Nodes :
        replicasEqual(Merge(replica[a], replica[b]), Merge(replica[b], replica[a]))

\* C3: merge is associative: merging B then C into A yields the same replica
\* as merging into A the result of merging C into B.
C3_MergeAssociative ==
    \A a, b, c \in Nodes :
        replicasEqual(Merge(Merge(replica[a], replica[b]), replica[c]),
                      Merge(replica[a], Merge(replica[b], replica[c])))

\* C4: merge is idempotent: merging a clone of A into A leaves A equal to
\* the clone.
C4_MergeIdempotent ==
    \A a \in Nodes : replicasEqual(Merge(replica[a], replica[a]), replica[a])

LocalOps == {"add", "update", "delete"}

\* The operation ran on the replica and drew a timestamp.
Drew(op, n) ==
    op.op \in LocalOps /\ op.node = n /\ op.err \notin {"not found", "deleted", "permission denied"}

MergeOps == {"merge", "apply state"}

InboundOps == {"merge", "apply state", "delta"}

Tombstoned(r, id) == id \in DOMAIN r.entries /\ r.entries[id].Deleted

Live(r, id) == id \in DOMAIN r.entries /\ ~r.entries[id].Deleted

\* C5 as stated: once a replica holds a tombstoned element for an id, the id
\* stays tombstoned on that replica in every later state.
C5_TombstoneNeverCleared ==
    [][\A n \in Nodes, id \in IDs :
          Tombstoned(replica[n], id) => Tombstoned(replica'[n], id)]_vars

\* C5 amended: a replica's tombstone for an id is never cleared by a local
\* operation and its timestamp never decreases; a merge, delta application or
\* state load replaces it by a live element only when that element's
\* timestamp is strictly greater than the tombstone's.
C5_TombstoneClearedOnlyByNewer ==
    [][\A n \in Nodes, id \in IDs :
          Tombstoned(replica[n], id) =>
              /\ id \in DOMAIN replica'[n].entries
              /\ replica'[n].entries[id].Timestamp >= replica[n].entries[id].Timestamp
              /\ \/ replica'[n].entries[id].Deleted
                 \/ /\ lastOp'.op \in InboundOps
                    /\ lastOp'.node = n
                    /\ replica'[n].entries[id].Timestamp > replica[n].entries[id].Timestamp]_vars

\* A tombstone has just survived the arrival of a live element of the same id
\* whose timestamp is not greater.
C5_Witness ==
    /\ lastOp.op \in InboundOps
    /\ \E id \in IDs :
          /\ Tombstoned(replica[lastOp.node], id)
          /\ Live(replica[lastOp.peer], id)
          /\ replica[lastOp.peer].entries[id].Timestamp
                <= replica[lastOp.node].entries[id].Timestamp
          /\ replica[lastOp.peer].entries[id].Timestamp > 1

\* C6: a merge of B into A leaves A's clock strictly above B's maximum
\* element timestamp; the clock never goes back and every local operation
\* draws a timestamp above the clock, so every later local operation on A
\* carries a timestamp above everything observed in B.
C6_ClockExceedsMerged ==
    [][\A n \in Nodes :
          /\ replica'[n].clock >= replica[n].clock
          /\ (lastOp'.op \in MergeOps /\ lastOp'.node = n) =>
                replica'[n].clock > MaxTimestamp(replica[lastOp'.peer])
          /\ Drew(lastOp', n) => lastLocal'[n] > replica[n].clock]_vars

\* A has just merged a B whose newest element is newer than A's own clock was.
C6_Witness ==
    /\ lastOp.op \in MergeOps
    /\ MaxTimestamp(replica[lastOp.peer]) > lastLocal[lastOp.node]
    /\ MaxTimestamp(replica[lastOp.peer]) >= 2
    /\ replica[lastOp.node].clock = MaxTimestamp(replica[lastOp.peer]) + 1

\* C7: every local add, update or remove on a replica draws a timestamp
\* strictly greater than that of every earlier local operation there, also
\* when merges come in between, and the entry it writes carries that
\* timestamp as updated_time, above its previous updated_time.
C7_LocalTimestampsIncrease ==
    [][\A n \in Nodes :
          Drew(lastOp', n) =>
              /\ lastLocal'[n] > lastLocal[n]
              /\ lastOp'.id \in DOMAIN replica'[n].entries
              /\ replica'[n].entries[lastOp'.id].Entry.UpdatedAt = lastLocal'[n]
              /\ lastOp'.id \in DOMAIN replica[n].entries =>
                    replica'[n].entries[lastOp'.id].Entry.UpdatedAt
                        > replica[n].entries[lastOp'.id].Entry.UpdatedAt]_vars

\* A local update has just written an entry that the peer had written
\* before: the two replicas exchanged the entry between their local writes.
C7_Witness ==
    /\ lastOp.op = "update"
    /\ lastOp.err = ""
    /\ \E m \in Nodes \ {lastOp.node} :
          /\ lastOp.id \in DOMAIN replica[m].entries
          /\ replica[m].entries[lastOp.id].Timestamp = lastLocal[m]
          /\ replica[m].entries[lastOp.id].Timestamp > 1
          /\ lastLocal[lastOp.node] > lastLocal[m]

\* C8: when one replica holds a live (updated) element of an entry and the
\* other a tombstone of it with a higher timestamp, then after the two merge,
\* in either order, get(id) reports deleted on both.
C8_DeleteWinsOverOlderUpdate ==
    \A a, b \in Nodes, id \in IDs :
        (/\ Live(replica[a], id)
         /\ Tombstoned(replica[b], id)
         /\ replica[b].entries[id].Timestamp > replica[a].entries[id].Timestamp) =>
            LET a1 == Merge(replica[a], replica[b])
                b1 == Merge(replica[b], a1)
                b2 == Merge(replica[b], replica[a])
                a2 == Merge(replica[a], b2)
            IN /\ GetEntry(a1, id).err = "deleted"
               /\ GetEntry(b1, id).err = "deleted"
               /\ GetEntry(a2, id).err = "deleted"
               /\ GetEntry(b2, id).err = "deleted"

\* A has updated the entry, B has removed it with a higher timestamp.
C8_Witness ==
    \E a, b \in Nodes, id \in IDs :
        /\ Live(replica[a], id)
        /\ replica[a].entries[id].Entry.UpdatedAt > replica[a].entries[id].Entry.CreatedAt
        /\ lastLocal[a] = replica[a].entries[id].Timestamp
        /\ Tombstoned(replica[b], id)
        /\ lastLocal[b] = replica[b].entries[id].Timestamp
        /\ replica[b].entries[id].Timestamp > replica[a].entries[id].Timestamp

\* A removed the tag while B held an add token of it that A had not observed.
UnobservedAdd(a, b, id, tt) ==
    /\ id \in DOMAIN replica[a].tags
    /\ id \in DOMAIN replica[b].tags
    /\ tt \in replica[b].tags[id].adds \ replica[b].tags[id].removes
    /\ tt \notin replica[a].tags[id].adds
    /\ \E rt \in replica[a].tags[id].removes : rt.Tag = tt.Tag
    /\ ~ORSetContains(replica[a].tags[id], tt.Tag)

\* C9: a remove cancels only the add tokens known locally: if B holds a live
\* add token of a tag that A had not observed when A removed the tag, then
\* after A and B merge in both directions the tag is present on both.
C9_RemoveCancelsOnlyObservedTokens ==
    \A a, b \in Nodes, id \in IDs :
        \A tt \in (IF id \in DOMAIN replica[b].tags THEN replica[b].tags[id].adds ELSE {}) :
            UnobservedAdd(a, b, id, tt) =>
                LET a1 == Merge(replica[a], replica[b])
                    b1 == Merge(replica[b], a1)
                IN /\ ORSetContains(a1.tags[id], tt.Tag)
                   /\ ORSetContains(b1.tags[id], tt.Tag)

C9_Witness ==
    \E a, b \in Nodes, id \in IDs :
        \E tt \in (IF id \in DOMAIN replica[b].tags THEN replica[b].tags[id].adds ELSE {}) :
            UnobservedAdd(a, b, id, tt)

\* The tags visible on either replica all have an add token that neither
\* replica has removed.
NoTagRemoved(a, b, id) ==
    \A tag \in GetEntry(a, id).Tags \cup GetEntry(b, id).Tags :
        \E tt \in getOrCreateTagSet(a, id).adds \cup getOrCreateTagSet(b, id).adds :
            /\ tt.Tag = tag
            /\ tt \notin getOrCreateTagSet(a, id).removes \cup getOrCreateTagSet(b, id).removes

\* C10: when an engine applies the sync payload of a peer and both held the
\* entry live with tag sets none of whose tags either side had removed, it
\* reports afterwards the union of the two tag sets; so after a sync in both
\* directions both engines report the union (A's {initial, A} and B's
\* {initial, B} give {initial, A, B} on both).
C10_SyncedTagsAreUnion ==
    [][\A n, m \in Nodes, id \in IDs :
          (/\ lastOp'.op = "apply state" /\ lastOp'.node = n /\ lastOp'.peer = m
           /\ Live(replica[n], id) /\ Live(replica[m], id)
           /\ NoTagRemoved(replica[n], replica[m], id)) =>
              /\ EngineGetEntry(n, id)'.err = ""
              /\ EngineGetEntry(n, id)'.Tags =
                    GetEntry(replica[n], id).Tags \cup GetEntry(replica[m], id).Tags]_vars

\* The two engines replaced the shared entry's tags by {initial, A} and by
\* {initial, B} and have synced: both report {initial, A, B}.
C10_Witness ==
    /\ lastOp.op = "apply state"
    /\ \E id \in IDs :
          /\ \A n \in Nodes : EngineGetEntry(n, id).Tags = {"initial", "A", "B"}
          /\ \A n \in Nodes : lastLocal[n] > 1
          /\ \A n \in Nodes : Cardinality(replica[n].tags[id].adds) = 3
          /\ \A n \in Nodes : replica[n].tags[id].removes = {}

\* The token pairs of a tag in a set of (tag, token) pairs.
PairsOf(pairs, tag) == {tt \in pairs : tt.Tag = tag}

\* Every add token held by any replica.
KnownTokens ==
    UNION {UNION {{tt.Token : tt \in replica[n].tags[id].adds} : id \in DOMAIN replica[n].tags} :
              n \in Nodes}

\* C11: Replica.UpdateEntry with a tag list L, C being the entry's current
\* tag elements: the add and remove pairs of every tag in C \cap L are
\* unchanged, the only pairs newly marked removed are locally known add pairs
\* of tags in C \ L, each tag in L \ C gets exactly one new pair whose token
\* no replica holds, no other pair is added, and afterwards the entry's tag
\* elements are exactly the set L.
C11_UpdateTagFrame ==
    \A n \in Nodes, id \in IDs, L \in TagLists :
        UpdateErr(replica[n], id) = "" =>
            LET s == getOrCreateTagSet(replica[n], id)
                C == ORSetElements(s)
                Lset == Range(L)
                s2 == UpdateEntry(replica[n], id, FALSE, "", TRUE, L, nextToken).tags[id]
            IN /\ \A tag \in C \cap Lset :
                     /\ PairsOf(s2.adds, tag) = PairsOf(s.adds, tag)
                     /\ PairsOf(s2.removes, tag) = PairsOf(s.removes, tag)
               /\ s.adds \subseteq s2.adds
               /\ s.removes \subseteq s2.removes
               /\ s2.removes \ s.removes \subseteq {tt \in s.adds : tt.Tag \in C \ Lset}
               /\ \A tag \in Lset \ C :
                     /\ Cardinality(PairsOf(s2.adds \ s.adds, tag)) = 1
                     /\ \A tt \in PairsOf(s2.adds \ s.adds, tag) : tt.Token \notin KnownTokens
               /\ \A tt \in s2.adds \ s.adds : tt.Tag \in Lset \ C
               /\ ORSetElements(s2) = Lset

\* A local update has just replaced the tags {initial, A} by {initial, B}:
\* the token of "initial" is the one minted by the add, the token of "A" is
\* marked removed, "B" has a newer token.
C11_Witness ==
    /\ lastOp.op = "update"
    /\ lastOp.err = ""
    /\ lastOp.id \in DOMAIN replica[lastOp.node].tags
    /\ LET s == replica[lastOp.node].tags[lastOp.id]
       IN /\ ORSetElements(s) = {"initial", "B"}
          /\ PairsOf(s.removes, "A") # {}
          /\ PairsOf(s.removes, "initial") = {}
          /\ \A ti \in PairsOf(s.adds, "initial"), tb \in PairsOf(s.adds, "B") :
                ti.Token.n < tb.Token.n

\* The replica holds every LWW element of the state (or a newer element of
\* the same id) and every tag token of it.
HoldsAll(r, state) ==
    /\ \A e \in state.Entries :
          /\ e.Entry.ID \in DOMAIN r.entries
          /\ \/ r.entries[e.Entry.ID] = e
             \/ r.entries[e.Entry.ID].Timestamp > e.Timestamp
    /\ \A id \in DOMAIN state.Tags :
          /\ id \in DOMAIN r.tags
          /\ state.Tags[id].Adds \subseteq r.tags[id].adds
          /\ state.Tags[id].Removes \subseteq r.tags[id].removes

\* The step closes, without error, a session between two nodes in which the
\* responder found the fingerprints different and sent its state.
Transferred(x) ==
    /\ x \in sessions
    /\ x \notin sessions'
    /\ x.stage = "replied"
    /\ x.peer \in Nodes
    /\ x.resp.Type = MsgState
    /\ lastOp'.op = "sync done"
    /\ lastOp'.err = ""

\* C12: when a session between two peers whose fingerprints differ completes,
\* each peer's replica holds every LWW element and tag token the other held
\* at the start of the session, whichever peer initiated; so an entry the
\* initiator created before the session is readable on the responder with
\* the same payload and tags.
C12_BidirectionalTransfer ==
    [][\A x \in sessions :
          Transferred(x) =>
             /\ HoldsAll(replica'[x.init], Deserialize(x.resp.Ser))
             /\ HoldsAll(replica'[x.peer], x.start)
             /\ \A id \in IDs :
                   LET before == LoadState(NewReplica(0), [Entries |-> x.start.Entries, Tags |-> x.start.Tags,
                                                            ClockTime |-> 0])
                   IN GetEntry(before, id).err = "" =>
                         GetEntry(replica'[x.peer], id) \in
                            {GetEntry(before, id),
                             [err |-> "deleted", Content |-> "", Tags |-> {}]}]_vars

\* The session x is between two nodes that hold equal replica states, and the
\* hash in flight was computed from that state.
EqualAtHash(x) ==
    /\ x.stage = "sent"
    /\ x.peer \in Nodes
    /\ State(replica[x.init]) = State(replica[x.peer])
    /\ Deserialize(x.req.Ser) = State(replica[x.init])

\* The stream of session x after this step, if the step left it open.
After(x) == {y \in sessions' \ sessions : y.init = x.init /\ y.peer = x.peer}

\* C13: when the initiator and the responder hold equal replica states (same
\* LWW elements, same tag token pairs, same clock), the responder answers the
\* initiator's hash frame with a hash frame and not with a STATE frame, one
\* frame has gone in each direction, and neither the reply nor the step that
\* closes a session answered by a hash frame changes a replica.
C13_EqualStatesExchangeHashes ==
    [][\A x \in sessions :
          /\ (EqualAtHash(x) /\ lastOp'.op = "sync step") =>
                /\ replica' = replica
                /\ \A y \in After(x) :
                      /\ y.resp.Type = MsgStateHash
                      /\ y.initSent = 1 /\ y.respSent = 1
          /\ (/\ x.stage = "replied"
              /\ x.peer \in Nodes
              /\ x.resp.Type = MsgStateHash
              /\ x \notin sessions') =>
                replica' = replica]_vars

\* Both nodes hold identical state: LWW elements, tag token pairs and clock.
Converged == State(replica["A"]) = State(replica["B"])

\* C14: once two peers hold identical state they compute the same
\* fingerprint, whichever of them computes it and whenever, so that the
\* sessions the periodic driver runs between them from then on are answered
\* by a hash frame and unchanged peers are skipped.
C14_ConvergedPeersSameFingerprint ==
    Converged =>
       \A ours \in StateSers("A"), theirs \in StateSers("B") :
          handleStreamReply(Message(MsgStateHash, "ok", theirs), ours, ours).Type
             = MsgStateHash

\* The frame counts of a stream that is open: the initiator has written at
\* most its hash and read nothing, the responder has read at most one frame
\* and written at most one reply, after reading.
OpenCounts(x) ==
    /\ x.initSent <= 1
    /\ x.initRead = 0
    /\ x.respRead <= x.initSent
    /\ x.respSent <= x.respRead

\* The frame counts of a closed stream: each side read at most one frame and
\* the responder wrote at most one reply.
ClosedCounts(c) ==
    /\ c.initRead <= 1
    /\ c.respRead <= 1
    /\ c.respSent <= c.respRead

\* C15 as stated: in every session the initiator sends one frame and reads at
\* most one reply, the responder reads one frame and writes at most one
\* reply, whatever message type is received in either role.
C15_OneFrameEachWay ==
    /\ \A x \in sessions : OpenCounts(x)
    /\ lastOp.op \in {"sync done", "sync handled"} =>
          ClosedCounts(lastOp) /\ lastOp.initSent <= 1

\* C15 amended: every session ends after at most one read per side; the
\* responder writes at most one reply; the initiator writes its hash and at
\* most one more frame, and that second frame is written only after the reply
\* was read and only when the reply is a STATE_REQUEST; no step reopens a
\* stream or sends a further frame to a side that has written its reply.
C15_AtMostOneReadPerSide ==
    [][/\ \A x \in sessions' : OpenCounts(x)
       /\ lastOp'.op = "sync handled" =>
             ClosedCounts(lastOp') /\ lastOp'.initSent = 1 /\ lastOp'.respRead = 1
       /\ lastOp'.op = "sync done" =>
             \A x \in sessions \ sessions' :
                /\ ClosedCounts(lastOp')
                /\ lastOp'.initSent <= 2
                /\ lastOp'.initSent > x.initSent =>
                      /\ x.stage = "replied"
                      /\ x.resp.Form = "ok"
                      /\ x.resp.Type = MsgStateRequest
                      /\ lastOp'.initRead = 1]_vars

\* A session has just ended in which the initiator, answered by a
\* STATE_REQUEST, wrote a second frame.
C15_Witness ==
    /\ lastOp.op = "sync done"
    /\ lastOp.initSent = 2
    /\ lastOp.initRead = 1
    /\ lastOp.respSent = 1

\* The peers node n has an initiator session in flight to.
InFlightTo(n) == {x.peer : x \in {y \in sessions : y.init = n}}

\* activeSyncs of every node holds exactly the peers it has a session in
\* flight to, and no node has two sessions in flight to one peer.
ActiveExactlyInFlight ==
    /\ \A n \in Nodes : activeSyncs[n] = InFlightTo(n)
    /\ \A x, y \in sessions : (x.init = y.init /\ x.peer = y.peer) => x = y

\* C16: for each peer at most one initiator session is in flight; a SyncWith
\* call that finds the peer in activeSyncs returns without opening a stream
\* and without touching activeSyncs or a replica; a call that inserted the
\* peer removes it on every return, so activeSyncs holds a peer exactly while
\* a session to it is in flight.
C16_OneSessionPerPeer ==
    [][/\ ActiveExactlyInFlight'
       /\ lastOp'.op = "sync already active" =>
             /\ UNCHANGED <<syncVars, replica, store>>
             /\ sessions # {}
       /\ \A x \in sessions \ sessions' :
             (\A y \in sessions' : y.init # x.init \/ y.peer # x.peer) =>
                x.peer \notin activeSyncs'[x.init]]_vars

\* A SyncWith call has just returned at once because a session to the same
\* peer is in flight, while the node has a second session to another peer.
C16_Witness ==
    /\ lastOp.op = "sync already active"
    /\ \E n \in Nodes : Cardinality(activeSyncs[n]) = 2 /\ Cardinality(sessions) = 2

\* SQLiteStore.List with the default filter returns the row of id.
StoreLive(db, id) == id \in DOMAIN db /\ ~db[id].Deleted

\* The store's row of id carries what the replica reports for id.
RowMatches(db, r, id) ==
    LET entry == getEntryWithTags(r, id)
    IN /\ db[id].Content = entry.Content
       /\ db[id].UpdatedAt = entry.UpdatedAt
       /\ db[id].Tags = entry.Tags

\* C17: when ApplyRemotePayload has completed, the store lists an entry as
\* live exactly when the replica holds a live element for it, with the same
\* payload, updated time and tags; an entry the merge turned into a
\* tombstone is no longer listed.
C17_StoreReflectsMergedReplica ==
    lastOp.op = "apply state" =>
       \A id \in IDs :
          /\ StoreLive(store[lastOp.node], id) <=> Live(replica[lastOp.node], id)
          /\ Live(replica[lastOp.node], id) =>
                RowMatches(store[lastOp.node], replica[lastOp.node], id)

\* What a replica reports of its live entries: ids, payloads and tag sets.
LiveView(r) ==
    {[ID |-> e.ID, Content |-> e.Content, Tags |-> e.Tags] : e \in ListEntries(r)}

\* C18: starting the engine again from its store yields a replica with the
\* same live entries (ids, payloads, tag sets) as the replica had before the
\* shutdown, and every entry that was tombstoned is still tombstoned.
C18_RestartKeepsLiveEntries ==
    [][\A n \in Nodes :
          (lastOp'.op = "restart" /\ lastOp'.node = n /\ runs'[n] = runs[n] + 1) =>
             /\ LiveView(replica'[n]) = LiveView(replica[n])
             /\ \A id \in IDs : Tombstoned(replica[n], id) => Tombstoned(replica'[n], id)]_vars

\* C19: the Lamport clock survives restarts: the timestamp an engine issues
\* to a local add, update or remove is strictly greater than the latest
\* timestamp it issued to a local mutation before, also when the engine was
\* closed and started again from its store in between.
C19_ClockSurvivesRestart ==
    [][\A n \in Nodes :
          (Drew(lastOp', n) /\ runs[n] > 0) =>
             lastLocal'[n] > lastLocal[n]]_vars

\* C20: a failed merge leaves the replica unchanged: when SyncWith returns
\* an error, or handleStream meets one (malformed payload, framing error,
\* cancelled or timed-out session, store write error while persisting), the
\* replicas hold the same LWW elements, tag sets and clocks as before.
C20_FailedMergeLeavesReplica ==
    [][(lastOp'.op \in {"sync done", "sync handled"} /\ lastOp'.err # "") =>
          replica' = replica]_vars

\* C21: Replica.UpdateEntry on an id the replica holds no element for
\* returns not found, on an id it holds only a tombstone for returns deleted,
\* whatever content and tag list it is given; in both cases the replica's
\* LWW elements, tag sets and clock are as before, and an update that
\* returns no error was made on a live element.
C21_UpdateOfMissingOrTombstoned ==
    /\ \A n \in Nodes, id \in IDs, content \in Ptrs(Contents), updateTags \in Ptrs(TagLists) :
          LET r == replica[n]
              after == UpdateEntry(r, id, content.has, content.val,
                                   updateTags.has, updateTags.val, nextToken)
          IN /\ id \notin DOMAIN r.entries => (UpdateErr(r, id) = "not found" /\ after = r)
             /\ Tombstoned(r, id) => (UpdateErr(r, id) = "deleted" /\ after = r)
             /\ Live(r, id) => (UpdateErr(r, id) = "" /\ after.clock = r.clock + 1)
    /\ (lastOp.op = "update" /\ lastOp.err = "") => ~Tombstoned(replica[lastOp.node], lastOp.id)

\* An update of a tombstoned id has just been refused.
C21_Witness ==
    /\ lastOp.op = "update"
    /\ lastOp.err = "deleted"
    /\ Tombstoned(replica[lastOp.node], lastOp.id)
    /\ \E m \in Nodes : lastOp.id \notin DOMAIN replica[m].entries

\* C22: Replica.DeleteEntry on an id the replica holds no element for is not
\* an error: it returns nil and leaves a tombstone element for the id at the
\* timestamp it drew; and a DeleteEntry on a tombstoned id leaves the id
\* tombstoned.
C22_RemoveOfMissingLeavesTombstone ==
    [][\A n \in Nodes, id \in IDs :
          (lastOp'.op = "delete" /\ lastOp'.node = n /\ lastOp'.id = id /\ lastOp' # lastOp) =>
             /\ id \notin DOMAIN replica[n].entries =>
                   /\ lastOp'.err = ""
                   /\ Tombstoned(replica'[n], id)
                   /\ replica'[n].entries[id].Timestamp = replica'[n].clock
                   /\ replica'[n].clock > replica[n].clock
             /\ Tombstoned(replica[n], id) => Tombstoned(replica'[n], id)]_vars

\* Node n has an allow-list in strict mode and peer p is not on it.
Rejects(n, p) == allowlist[n].on /\ allowlist[n].strict /\ p \notin allowlist[n].peers

\* C23: a responder with an allow-list in strict mode closes an inbound
\* stream from a peer that is not on the list without reading a frame,
\* writing a reply or changing its replica or store; a responder with no
\* allow-list, with a non-strict one, or with the peer on its list reads the
\* frame of every inbound stream it handles.
C23_StrictAllowlistRejects ==
    [][/\ \A x \in sessions, y \in sessions' :
             (/\ x.init = y.init /\ x.peer = y.peer /\ x.peer \in Nodes
              /\ x.stage = "sent" /\ y.stage \in {"replied", "rejected"}) =>
                IF Rejects(x.peer, x.init)
                   THEN /\ y.stage = "rejected"
                        /\ y.respRead = 0 /\ y.respSent = 0 /\ y.resp = NoMessage
                        /\ replica' = replica /\ store' = store
                   ELSE /\ y.stage = "replied"
                        /\ y.respRead = 1
       /\ \A m \in Nodes :
             (/\ lastOp'.op \in {"sync handled", "sync rejected"}
              /\ lastOp'.node = m /\ lastOp'.peer = Foreign) =>
                IF Rejects(m, Foreign)
                   THEN /\ lastOp'.op = "sync rejected"
                        /\ replica' = replica /\ store' = store
                   ELSE /\ lastOp'.op = "sync handled"
                        /\ lastOp'.respRead = 1]_vars

\* A strict node that never applied anything turned the foreign peer away
\* after the other node, which does not reject it, applied its state.
C23_Witness ==
    /\ lastOp.op = "sync rejected"
    /\ lastOp.peer = Foreign
    /\ Rejects(lastOp.node, Foreign)
    /\ replica[lastOp.node].clock = 0
    /\ \E m \in Nodes : ~Rejects(m, Foreign) /\ replica[m].clock > 1

\* The subscription is open and its filter lets the event through.
Wants(s, e) ==
    /\ ~s.closed
    /\ s.filter.Events = {} \/ e.Type \in s.filter.Events
    /\ s.filter.EntryType = "" \/ e.EntryType = s.filter.EntryType

\* What publishing e makes of subscription s: t is s with e queued last, or
\* s itself when s does not want e or its queue is full.
Delivered(s, t, e) ==
    IF Wants(s, e) /\ Len(s.ch) < BufferSize
    THEN t = [s EXCEPT !.ch = s.ch \o <<e>>]
    ELSE t = s

\* The event a successful engine operation publishes.
Published(op, r) ==
    IF op.op = "add" THEN Event(EventCreated, op.id, Note)
    ELSE IF op.op = "update" THEN Event(EventUpdated, op.id, r.entries[op.id].Entry.Type)
    ELSE Event(EventDeleted, op.id, "")

\* C24: an engine operation that publishes an event completes whatever the
\* subscribers' queues hold: a subscriber whose queue is at capacity keeps its
\* queue as it was (the new event is dropped for it alone), and every other
\* open subscriber whose filter admits the event gets it appended behind what
\* it had queued.
C24_PublishDropsForFullSubscriberOnly ==
    [][\A n \in Nodes :
          (/\ lastOp'.op \in {"add", "update", "delete"}
           /\ lastOp'.node = n /\ lastOp'.err = ""
           /\ replica'[n] # replica[n]) =>
             /\ Len(subs'[n]) = Len(subs[n])
             /\ \A i \in 1..Len(subs[n]) :
                   Delivered(subs[n][i], subs'[n][i], Published(lastOp', replica'[n]))]_vars

\* A deletion was published while one subscriber to every event had a full
\* queue, which still holds the two older events in order and not the
\* deletion; another subscriber got the deletion.
C24_Witness ==
    /\ lastOp.op = "delete"
    /\ lastOp.err = ""
    /\ \E n \in Nodes, i, j \in 1..MaxSubs :
          /\ Len(subs[n]) = MaxSubs
          /\ i # j
          /\ ~subs[n][i].closed
          /\ subs[n][i].filter = [Events |-> {}, EntryType |-> ""]
          /\ Len(subs[n][i].ch) = BufferSize
          /\ subs[n][i].ch[1].Type = EventCreated
          /\ \A k \in 1..BufferSize : subs[n][i].ch[k].Type # EventDeleted
          /\ subs[n][j].ch # <<>>
          /\ subs[n][j].ch[Len(subs[n][j].ch)].Type = EventDeleted

\* The values Tick has returned, over all goroutines.
Returned == UNION {{tickers[t].got[k] : k \in 1..Len(tickers[t].got)} : t \in Threads}

RECURSIVE SumTicks(_)
\* The number of Tick calls that have returned, over the goroutines in S.
SumTicks(S) ==
    IF S = {} THEN 0
    ELSE LET t == CHOOSE u \in S : TRUE
         IN Len(tickers[t].got) + SumTicks(S \ {t})

\* C25: Tick calls issued by concurrent goroutines on one clock return
\* pairwise distinct values, each goroutine sees its own values strictly
\* increase, and whenever no Tick is in progress Now() is the initial value
\* plus the number of ticks returned.
C25_ConcurrentTicksTotallyOrdered ==
    /\ Cardinality(Returned) = SumTicks(Threads)
    /\ \A t \in Threads : \A k \in 1..(Len(tickers[t].got) - 1) :
          tickers[t].got[k] < tickers[t].got[k + 1]
    /\ (\A t \in Threads : tickers[t].pc = "idle") =>
          sharedClock.time = sharedClock.initial + SumTicks(Threads)

\* Every goroutine has made all its ticks and they interleaved: the values
\* one goroutine got are not consecutive.
C25_Witness ==
    /\ \A t \in Threads : tickers[t].pc = "idle" /\ Len(tickers[t].got) = TicksPerThread
    /\ sharedClock.initial > 0
    /\ \E t \in Threads : tickers[t].got[2] > tickers[t].got[1] + 1

\* The ids of the live entries of a replica.
LiveIDs(r) == {id \in DOMAIN r.entries : ~r.entries[id].Deleted}

\* DeltaState(since) of r carries exactly the elements of r written after
\* since and the OR-Sets of exactly those entries.
DeltaExact(r, since) ==
    LET delta == DeltaState(r, since)
        ids == {id \in DOMAIN r.entries : r.entries[id].Timestamp > since}
    IN /\ delta.Entries = {r.entries[id] : id \in ids}
       /\ DOMAIN delta.Tags = ids \cap DOMAIN r.tags
       /\ \A id \in DOMAIN delta.Tags :
             /\ delta.Tags[id].Adds = r.tags[id].adds
             /\ delta.Tags[id].Removes = r.tags[id].removes

\* b holds every element of a whose timestamp is at most since.
HoldsUpTo(b, a, since) ==
    \A id \in DOMAIN a.entries :
       a.entries[id].Timestamp <= since =>
          (id \in DOMAIN b.entries /\ b.entries[id] = a.entries[id])

\* b holds the OR-Set a holds for every entry whose element in a has a
\* timestamp of at most since.
HoldsTagsUpTo(b, a, since) ==
    \A id \in DOMAIN a.entries :
       a.entries[id].Timestamp <= since =>
          /\ id \in DOMAIN a.tags <=> id \in DOMAIN b.tags
          /\ id \in DOMAIN a.tags => b.tags[id] = a.tags[id]

\* b holds nothing a has not seen: each element of b is a's element of that
\* id or an older one, and each tag token b holds a holds too.
Behind(b, a) ==
    /\ \A id \in DOMAIN b.entries :
          /\ id \in DOMAIN a.entries
          /\ \/ b.entries[id] = a.entries[id]
             \/ b.entries[id].Timestamp < a.entries[id].Timestamp
    /\ \A id \in DOMAIN b.tags :
          /\ id \in DOMAIN a.tags
          /\ b.tags[id].adds \subseteq a.tags[id].adds
          /\ b.tags[id].removes \subseteq a.tags[id].removes

C27_GCRemovesUnreferenced ==
    [][(lastOp'.op = "gc" /\ lastOp' # lastOp) =>
          /\ blobs'.files = blobs.files \cap lastOp'.referenced
          /\ lastOp'.removed = Cardinality(blobs.files \ lastOp'.referenced)]_vars

\* The replicas that running the UpdateEntry call and the merge one after
\* the other, in either order, can leave; the call alone if nothing was
\* merged meanwhile.
Sequential(call) ==
    IF call.merged.has
    THEN {Merge(UpdateEntry(call.before, call.id, call.content.has, call.content.val,
                            FALSE, <<>>, nextToken),
                call.merged.val),
          UpdateEntry(Merge(call.before, call.merged.val), call.id,
                      call.content.has, call.content.val, FALSE, <<>>, nextToken)}
    ELSE {UpdateEntry(call.before, call.id, call.content.has, call.content.val,
                      FALSE, <<>>, nextToken)}

\* C28: a local update that runs concurrently with a merge a sync session
\* makes into the same replica leaves the LWW elements, the tag sets and the
\* clock that running the two one after the other, in one of the two orders,
\* would leave.
C28_UpdateAtomicWithMerge ==
    [][\A n \in Nodes :
          (pending[n].pc = "looked" /\ pending'[n].pc = "idle") =>
             replica'[n] \in Sequential(pending[n])]_vars

\* The store's row of id carries the payload, the updated time and the
\* tombstone flag of the replica's LWW element of id.
RowIsElement(db, r, id) ==
    /\ id \in DOMAIN db
    /\ id \in DOMAIN r.entries
    /\ db[id].Content = r.entries[id].Entry.Content
    /\ db[id].UpdatedAt = r.entries[id].Timestamp
    /\ db[id].Deleted = r.entries[id].Deleted

\* C29: after every successful engine AddEntry, UpdateEntry or DeleteEntry
\* the store's row for the entry carries the same payload, updated time and
\* tombstone flag as the replica's LWW element for it.
C29_ProjectionNeverStale ==
    (lastOp.op \in {"add", "update", "delete"} /\ lastOp.err = "") =>
       RowIsElement(store[lastOp.node], replica[lastOp.node], lastOp.id)

\* An LWW set that contains only the element of the entry.
Singleton(entry) == MapPut(EmptyMap, entry.ID, Element(entry))

\* C30: for an existing element and an incoming entry of the same id,
\* LWWSet.Add(entry) leaves the element that LWWSet.Merge of a set holding
\* only that entry leaves: the higher timestamp wins, and at equal timestamps
\* a tombstone wins over a live element.
C30_AddTieBreakAsMerge ==
    \A n, m \in Nodes, id \in IDs :
       (id \in DOMAIN replica[n].entries /\ id \in DOMAIN replica[m].entries) =>
          LET elements == replica[n].entries
              entry == replica[m].entries[id].Entry
          IN LWWAdd(elements, entry)[id] = LWWMerge(elements, Singleton(entry))[id]


\* The add pairs of tag x that replica r holds for entry id.
AddPairs(r, id, x) ==
    IF id \in DOMAIN r.tags THEN {tt \in r.tags[id].adds : tt.Tag = x} ELSE {}

\* Node a has observed every add of tag x on entry id: no node holds an add
\* pair of x that a's replica does not hold.
ObservedAll(a, id, x) ==
    \A b \in Nodes : AddPairs(replica[b], id, x) \subseteq AddPairs(replica[a], id, x)

\* The replica of node a after its engine is closed, started again from its
\* store, and updates entry id to its tags without x.
RemoveAfterRestart(a, id, x) ==
    LET r == New(store[a])
        cur == GetEntry(r, id)
    IN UpdateEntry(r, id, TRUE, cur.Content, TRUE, SetToSeq(cur.Tags \ {x}), nextToken)

\* C31: if node a has observed every add of tag x on entry e, then after a
\* is restarted and removes x through an update, x is absent from e's tags
\* on a and on every peer that merges a's state.
C31_ObservedRemoveAcrossRestart ==
    \A a \in Nodes, b \in Nodes, id \in Minted, x \in {"initial", "A", "B"} :
        (/\ a # b
         /\ ObservedAll(a, id, x)
         /\ id \in DOMAIN store[a] /\ ~store[a][id].Deleted /\ x \in store[a][id].Tags
         /\ canWrite(GetACL(acls[a], id), a \o "#" \o ToString(runs[a] + 1)))
        => LET ra == RemoveAfterRestart(a, id, x)
               state == State(ra)
               rb == Merge(replica[b], LoadState(NewReplica(state.ClockTime), state))
           IN /\ x \notin GetEntry(ra, id).Tags
              /\ id \in DOMAIN rb.tags => x \notin ORSetElements(rb.tags[id])


\* C32: when an engine add, update or remove returns an error, the replica
\* (LWW elements, tag sets, clock) and the store are as they were before the
\* call.
C32_FailedCallLeavesState ==
    [][(lastOp'.op \in {"add", "update", "delete"} /\ lastOp'.err # "")
       => (replica' = replica /\ store' = store)]_vars


\* C33: a node with an allow-list in strict mode never merges replica state
\* received from a peer that is not on the list, neither in handleStream on
\* a stream the peer opened nor in a SyncWith call the node made itself.
C33_StrictNeverMergesUnlisted ==
    [][\A n \in Nodes :
          replica'[n] # replica[n] =>
             /\ \A x \in sessions \ sessions' :
                   (x.init = n /\ x.stage = "replied") => ~Rejects(n, x.peer)
             /\ (lastOp'.op = "sync handled" /\ lastOp'.node = n)
                   => ~Rejects(n, lastOp'.peer)]_vars


\* Both nodes have a SyncWith call toward the other in flight.
Mutual == "B" \in activeSyncs["A"] /\ "A" \in activeSyncs["B"]

\* C34: when two peers call SyncWith toward each other at the same time,
\* neither call waits on the other for ever: each node's entry in
\* activeSyncs for the other is eventually deleted.
C34_MutualSyncCompletes ==
    /\ Mutual ~> ("B" \notin activeSyncs["A"])
    /\ Mutual ~> ("A" \notin activeSyncs["B"])

\* Each node's handleStream has served the other's stream while its own
\* SyncWith call was still waiting for its reply.
C34_Witness ==
    /\ Mutual
    /\ \A x \in sessions : x.stage = "replied"
    /\ Cardinality(sessions) = 2


\* The add pairs hydration derives from a stored entry: one per tag, the
\* token computed from the entry id and the tag.
HydratedPairs(entry) == {TagToken(tag, NewSHA1(entry.ID, tag)) : tag \in entry.Tags}

\* C35: hydrating a stored entry again changes nothing: HydrateEntry adds
\* one pair per tag whose token depends on the entry id and the tag only,
\* and adds nothing to the remove set, in the running replica as well as in
\* the replica every new start builds from the store.
C35_HydrationIdempotent ==
    \A n \in Nodes :
       /\ \A e \in StoreList(store[n], TRUE) :
             LET once == HydrateEntry(replica[n], e)
                 twice == HydrateEntry(once, e)
                 before == getOrCreateTagSet(replica[n], e.ID)
                 after == getOrCreateTagSet(once, e.ID)
             IN /\ twice.tags = once.tags
                /\ after.adds = before.adds \cup HydratedPairs(e)
                /\ after.removes = before.removes
       /\ LET started == New(store[n])
          IN /\ HydrateAll(started, StoreList(store[n], TRUE)).tags = started.tags
             /\ \A e \in StoreList(store[n], TRUE) :
                   /\ getOrCreateTagSet(started, e.ID).adds = HydratedPairs(e)
                   /\ getOrCreateTagSet(started, e.ID).removes = {}
             /\ (lastOp.op = "restart" /\ lastOp.node = n) => replica[n].tags = started.tags

\* A node was started again from a store that holds an entry with two tags.
C35_Witness ==
    \E n \in Nodes, id \in Minted :
       /\ lastOp.op = "restart" /\ lastOp.node = n
       /\ id \in DOMAIN store[n] /\ Cardinality(store[n][id].Tags) = 2
       /\ id \in DOMAIN replica[n].tags
       /\ Cardinality(replica[n].tags[id].adds) = 2


\* The sum of one counter over the nodes.
Total(m, counter) == m["A"][counter] + m["B"][counter]

\* C36: attempts >= successes + failures on every node at all times; every
\* SyncWith call adds one to attempts, the calls that find the peer in
\* activeSyncs included, and a call that opened a session adds one to
\* exactly one of successes and failures in the step in which it returns.
C36_CountersAccountForCalls ==
    [][/\ \A n \in Nodes :
             LET opened == {y \in sessions' \ sessions : y.init = n /\ y.stage = "entered"}
                 returned == {x \in sessions : x.init = n /\
                                 ~\E y \in sessions' : y.init = n /\ y.peer = x.peer}
                 done(m) == m[n].successes + m[n].failures
             IN /\ metrics'[n].attempts >= done(metrics')
                /\ metrics'[n].successes >= metrics[n].successes
                /\ metrics'[n].failures >= metrics[n].failures
                /\ done(metrics') - done(metrics) = Cardinality(returned)
                /\ metrics'[n].attempts - metrics[n].attempts >= Cardinality(opened)
       /\ Total(metrics', "attempts") - Total(metrics, "attempts") =
             Cardinality({y \in sessions' \ sessions : y.stage = "entered"})
             + (IF lastOp'.op = "sync already active" THEN 1 ELSE 0)]_vars

\* A node made two calls, one of them found the peer in activeSyncs, the
\* other has returned.
C36_Witness ==
    \E n \in Nodes :
       /\ metrics[n].attempts = 2
       /\ metrics[n].successes + metrics[n].failures = 1
       /\ activeSyncs[n] = {}

\* C37: the publisher skips closed queues.  Whatever engine operation,
\* subscribe, close or receive comes next, a subscription that is closed stays
\* closed and nothing is appended to its queue (the only change a closed queue
\* sees is the subscriber reading its head), and closing a subscription that
\* is already closed leaves every subscription as it was.
C37_ClosedQueueGetsNothing ==
    [][\A n \in Nodes :
          /\ lastOp'.op # "unsubscribe" =>
                \A i \in 1..Len(subs[n]) :
                   subs[n][i].closed =>
                      /\ i <= Len(subs'[n])
                      /\ subs'[n][i].closed
                      /\ \/ subs'[n][i].ch = subs[n][i].ch
                         \/ /\ subs[n][i].ch # <<>>
                            /\ subs'[n][i].ch = Tail(subs[n][i].ch)
          /\ (/\ lastOp'.op = "close subscription" /\ lastOp'.node = n
              /\ lastOp'.id \in 1..Len(subs[n])
              /\ subs[n][lastOp'.id].closed) => subs'[n] = subs[n]]_vars

\* An engine operation has just published an event that an open subscriber
\* to every event holds, while a subscriber to every event that had been
\* closed holds nothing.
C37_Witness ==
    \E n \in Nodes :
       /\ lastOp.op \in {"add", "update", "delete"} /\ lastOp.node = n /\ lastOp.err = ""
       /\ \E i, j \in 1..Len(subs[n]) :
             /\ subs[n][i].closed /\ subs[n][i].ch = <<>>
             /\ subs[n][i].filter.Events = {} /\ subs[n][i].filter.EntryType = ""
             /\ ~subs[n][j].closed /\ subs[n][j].ch # <<>>
             /\ subs[n][j].filter.Events = {} /\ subs[n][j].filter.EntryType = ""

\* C38: a subscription drops itself from the event bus when it is closed:
\* the subscriber list of every bus holds open subscriptions only, so its
\* length never exceeds the number of open subscriptions.
C38_ClosedSubscriptionLeavesBus ==
    \A n \in Nodes : \A i \in 1..Len(subs[n]) : ~subs[n][i].closed

\* C39: once the engine's Close has returned, every subscription obtained
\* from it is closed.
C39_CloseClosesSubscriptions ==
    \A n \in Nodes :
       (lastOp.op = "close" /\ lastOp.node = n) =>
          \A i \in 1..Len(subs[n]) : subs[n][i].closed

\* C40: on every node the clock is at least the highest timestamp of the LWW
\* elements the replica holds, tombstones included, after local operations,
\* merges of a received state, applied deltas and hydration at start; the
\* next tick is therefore above every timestamp held.
C40_ClockCoversHeld ==
    \A n \in Nodes :
       /\ replica[n].clock >= MaxTimestamp(replica[n])
       /\ \A id \in DOMAIN replica[n].entries :
             Tick(replica[n].clock) > replica[n].entries[id].Timestamp

\* A node that was started again on its store has just applied a delta that
\* brought it a tombstone newer than everything it held, and its clock is one
\* above that tombstone's timestamp.
C40_Witness ==
    \E n \in Nodes :
       /\ lastOp.op = "delta" /\ lastOp.node = n
       /\ runs[n] > 0
       /\ \E id \in DOMAIN replica[n].entries :
             /\ replica[n].entries[id].Deleted
             /\ replica[n].entries[id].Timestamp > 1
             /\ replica[n].entries[id].Timestamp = MaxTimestamp(replica[n])
             /\ replica[n].clock = replica[n].entries[id].Timestamp + 1

=============================================================================
